---- MODULE Spec2Model ----
(***************************************************************************)
(* Model of the ReachInbox email scheduler: the campaign ingress           *)
(* (routes/campaigns.ts), the BullMQ queue "reachinboxScheduler"           *)
(* (queue/reachinboxScheduler.ts), the delivery worker (queue/worker.ts)   *)
(* and the Redis rate limiter (services/rateLimiter.ts).                   *)
(*                                                                         *)
(* Every `await` of processEmailDelivery and checkRateLimit is one step,   *)
(* so executions of different tasks interleave at each store, KV and SMTP  *)
(* round trip.  Time is counted in ticks; ticksPerHour ticks make one UTC  *)
(* hour.  The clock starts StartHour hours after the Unix epoch, because   *)
(* Date.now() is an epoch timestamp and the code mixes timestamps and      *)
(* durations.                                                              *)
(***************************************************************************)
EXTENDS Integers, FiniteSets, Sequences, TLC

\* ---------------------------------------------------------------- bounds
NumDispatch == 2
\* the longest recipient list of a request, and the dispatch ids there are
MaxRecipients == 3
TicksPerHour == 1
LimiterTicksPerHour == 2
NumHours == 2
MaxCrashes == 2
MaxFaults == 1
MaxEnqueues == 2
NumCallers == 2
\* configuration values (env), scaled down: the global ceiling of the
\* scheduler runs and of the rate limiter runs, the ceiling per sender, and
\* the size of the worker pool
SchedulerMaxEmailsPerHour == 1
LimiterMaxEmailsPerHour == 2
MaxEmailsPerHourPerSender == 1
WorkerConcurrency == 2
\* removeOnComplete.count, scaled down: the completed jobs the queue retains
KeepCompletedCount == 1

\* ------------------------------------------------------ program constants
MaxAttempts == 3
BackoffDelayMs == 5000
HourMs == 3600000
TtlSeconds == 3600
MaxStalledCount == 1
MinDelayBetweenEmailsMs == 2000
PastToleranceMs == 60000
StartHour == 1

Dispatches == 1..MaxRecipients
Callers == 101..(100 + NumCallers)
Procs == Dispatches \cup Callers
Hours == 0..(StartHour + NumHours)
NoSender == "none"
\* a field the request does not carry
NoValue == -1
\* kvTtl of a key Redis does not hold; 0 is a key without a TTL
NoKey == -1
Senders == {"s1"}
\* recipient addresses: NumDispatch mailboxes, each written in two ways that
\* differ in letter case only
Emails == (1..NumDispatch) \X {"lower", "upper"}
Scopes == {"global"} \cup Senders
Keys == Scopes \X Hours

VARIABLES
  now,        \* Date.now(), in ticks
  ticksPerHour,      \* the ticks that make one hour in this run
  maxEmailsPerHour,  \* config.rateLimiting.maxEmailsPerHour
  \* MySQL: MailDispatch rows
  dStatus, dScheduled, dSent, dError,
  \* Redis: BullMQ jobs, keyed by job id emailTask-<dispatchId>
  jState, jReadyAt, jAttempts, jStalled,
  completedJobs,  \* ids of the retained completed jobs, oldest first
  \* Redis: rate counters and their TTLs, keyed by <<scope, hour>>
  kv, kvTtl,
  \* createCampaign request in flight
  reqPc, reqIdx, reqNow, reqDelay,
  req,        \* the request body and the locals derived from it
  campaign,   \* MySQL: the MailCampaign row
  response,   \* the HTTP response
  \* running executions: position and locals
  pc, rlSender, rlHour, rlCount, err,
  \* history
  admit, charged, sendCalls, enqCalls, granted, faultsLeft, crashesLeft,
  \* the process: its worker running, closing after a signal, or exited
  workerState

storeVars == <<dStatus, dScheduled, dSent, dError>>
jobVars == <<jState, jReadyAt, jAttempts, jStalled, completedJobs>>
kvVars == <<kv, kvTtl>>
reqVars == <<reqPc, reqIdx, reqNow, reqDelay, req, campaign, response>>
rlLocals == <<rlSender, rlHour, rlCount>>
histVars == <<admit, charged, sendCalls, enqCalls, granted, faultsLeft, crashesLeft, workerState>>
vars == <<now, maxEmailsPerHour, ticksPerHour, storeVars, jobVars, kvVars, reqVars, pc, rlLocals, err, histVars>>

\* ---------------------------------------------------------------- helpers
StartTime == StartHour * ticksPerHour
MaxNow == (StartHour + NumHours) * ticksPerHour - 1
TickMs == HourMs \div ticksPerHour

Max(a, b) == IF a >= b THEN a ELSE b

RECURSIVE Pow2(_)
Pow2(n) == IF n <= 0 THEN 1 ELSE 2 * Pow2(n - 1)

\* a DATETIME column keeps whole seconds: MySQL rounds the milliseconds of
\* the value it is given
ToDatetime(t) == (((t * TickMs + 500) \div 1000) * 1000) \div TickMs

\* the comparison key of a VARCHAR under utf8mb4_unicode_ci: letter case
\* does not count
Fold(email) == <<email[1], "lower">>

\* Array.from(new Set(list)): the first occurrence of each element, in order
RECURSIVE Dedup(_)
Dedup(list) ==
  IF list = <<>> THEN <<>>
  ELSE LET front == Dedup(SubSeq(list, 1, Len(list) - 1))
           last == list[Len(list)]
       IN IF \E i \in 1..Len(front) : front[i] = last THEN front ELSE Append(front, last)

\* the left operand of `||` is taken: it is neither undefined nor 0
Truthy(v) == v # NoValue /\ v # 0

NoRequest ==
  [recipientEmails |-> <<>>, startTime |-> 0, delayBetweenMs |-> NoValue,
   hourlyLimit |-> NoValue, emailsToProcess |-> <<>>, delayBetween |-> 0,
   dispatchResults |-> <<>>]

NoCampaign == [status |-> "NONE", delayBetweenMs |-> 0, hourlyLimit |-> 0]

NoResponse == [code |-> 0, error |-> "", dispatchCount |-> 0, totalEmails |-> 0, failed |-> 0]

\* getHourKey(): the UTC hour bucket of an instant
getHourKey(t) == t \div ticksPerHour

\* nextHour.setUTCHours(h + 1, 0, 0, 0): start of the next UTC hour
resetTimeOf(h) == (h + 1) * ticksPerHour

\* redis.expire(key, 3600), in ticks
TtlTicks == (TtlSeconds * 1000) \div TickMs

\* BullMQ exponential backoff: delay * 2^(attemptsMade - 1), in ms
BackoffMs(attemptsMade) == BackoffDelayMs * Pow2(attemptsMade - 1)
BackoffTicks(attemptsMade) == BackoffMs(attemptsMade) \div TickMs

Running == {p \in Procs : pc[p] # "idle"}

\* An execution ends: its locals go out of scope.
EndExecution(p) ==
  /\ pc' = [pc EXCEPT ![p] = "idle"]
  /\ rlSender' = [rlSender EXCEPT ![p] = NoSender]
  /\ rlHour' = [rlHour EXCEPT ![p] = 0]
  /\ rlCount' = [rlCount EXCEPT ![p] = 0]
  /\ err' = [err EXCEPT ![p] = "none"]
  /\ admit' = [admit EXCEPT ![p] = "none"]
  /\ charged' = [charged EXCEPT ![p] = {}]

\* MySQL and Redis are empty, nothing runs.
InitState ==
  /\ dStatus = [d \in Dispatches |-> "NONE"]
  /\ dScheduled = [d \in Dispatches |-> 0]
  /\ dSent = [d \in Dispatches |-> 0]
  /\ dError = [d \in Dispatches |-> FALSE]
  /\ jState = [d \in Dispatches |-> "none"]
  /\ jReadyAt = [d \in Dispatches |-> 0]
  /\ jAttempts = [d \in Dispatches |-> 0]
  /\ jStalled = [d \in Dispatches |-> 0]
  /\ completedJobs = <<>>
  /\ workerState = "running"
  /\ kv = [k \in Keys |-> 0]
  /\ kvTtl = [k \in Keys |-> NoKey]
  /\ reqPc = "idle"
  /\ reqIdx = 1
  /\ reqNow = 0
  /\ reqDelay = 0
  /\ req = NoRequest
  /\ campaign = NoCampaign
  /\ response = NoResponse
  /\ pc = [p \in Procs |-> "idle"]
  /\ rlSender = [p \in Procs |-> NoSender]
  /\ rlHour = [p \in Procs |-> 0]
  /\ rlCount = [p \in Procs |-> 0]
  /\ err = [p \in Procs |-> "none"]
  /\ admit = [p \in Procs |-> "none"]
  /\ charged = [p \in Procs |-> {}]
  /\ sendCalls = [d \in Dispatches |-> 0]
  /\ enqCalls = [d \in Dispatches |-> 0]
  /\ granted = [k \in Keys |-> 0]

\* ------------------------------------------------------------ environment
\* The clock advances; Redis drops every key whose TTL has run out.
Tick ==
  /\ now < MaxNow
  /\ now' = now + 1
  /\ kv' = [k \in Keys |-> IF kvTtl[k] > 0 /\ kvTtl[k] <= now + 1 THEN 0 ELSE kv[k]]
  /\ kvTtl' = [k \in Keys |-> IF kvTtl[k] > 0 /\ kvTtl[k] <= now + 1 THEN NoKey ELSE kvTtl[k]]
  /\ UNCHANGED <<maxEmailsPerHour, ticksPerHour, storeVars, jobVars, reqVars, pc, rlLocals, err, histVars>>

\* the instants at which a delayed job of the queue becomes ready
ReadyTimes == {jReadyAt[d] : d \in {x \in Dispatches : jState[x] = "delayed" /\ jReadyAt[x] > now}}

\* Nothing happens until the delay of the next delayed job has run out: the
\* clock advances to that instant; Redis drops every key whose TTL has run
\* out by then.
AdvanceClock ==
  /\ ReadyTimes # {}
  /\ LET t == CHOOSE x \in ReadyTimes : \A y \in ReadyTimes : x <= y IN
     /\ t <= MaxNow
     /\ now' = t
     /\ kv' = [k \in Keys |-> IF kvTtl[k] > 0 /\ kvTtl[k] <= t THEN 0 ELSE kv[k]]
     /\ kvTtl' = [k \in Keys |-> IF kvTtl[k] > 0 /\ kvTtl[k] <= t THEN NoKey ELSE kvTtl[k]]
  /\ UNCHANGED <<maxEmailsPerHour, ticksPerHour, storeVars, jobVars, reqVars, pc, rlLocals, err, histVars>>

\* The process dies and is started again (index.ts initialize): every
\* execution and request in flight is lost with its locals; MySQL and Redis
\* keep their contents; jobs that were active stay in the active list.
CrashRestart ==
  /\ crashesLeft > 0
  /\ crashesLeft' = crashesLeft - 1
  /\ UNCHANGED workerState
  /\ pc' = [p \in Procs |-> "idle"]
  /\ rlSender' = [p \in Procs |-> NoSender]
  /\ rlHour' = [p \in Procs |-> 0]
  /\ rlCount' = [p \in Procs |-> 0]
  /\ err' = [p \in Procs |-> "none"]
  /\ admit' = [p \in Procs |-> "none"]
  /\ charged' = [p \in Procs |-> {}]
  /\ reqPc' = IF reqPc \in {"insert", "enqueue"} THEN "done" ELSE reqPc
  /\ UNCHANGED <<now, maxEmailsPerHour, ticksPerHour, storeVars, jobVars, kvVars, reqIdx, reqNow, reqDelay,
                 req, campaign, response,
                 sendCalls, enqCalls, granted, faultsLeft>>

\* SIGTERM or SIGINT: the handler calls stopWorker, which awaits
\* emailWorker.close(): the worker takes no more jobs and the call returns
\* when the executions in progress have ended.
Shutdown ==
  /\ workerState = "running"
  /\ workerState' = "closing"
  /\ UNCHANGED <<now, maxEmailsPerHour, ticksPerHour, storeVars, jobVars, kvVars, reqVars, pc, rlLocals, err,
                 admit, charged, sendCalls, enqCalls, granted, faultsLeft, crashesLeft>>

\* Exit without waiting for the executions in progress: they die with the
\* process.
ExitNow ==
  /\ workerState = "closing"
  /\ workerState' = "exited"
  /\ pc' = [p \in Procs |-> "idle"]
  /\ rlSender' = [p \in Procs |-> NoSender]
  /\ rlHour' = [p \in Procs |-> 0]
  /\ rlCount' = [p \in Procs |-> 0]
  /\ err' = [p \in Procs |-> "none"]
  /\ admit' = [p \in Procs |-> "none"]
  /\ charged' = [p \in Procs |-> {}]
  /\ reqPc' = IF reqPc = "idle" THEN "idle" ELSE "done"
  /\ UNCHANGED <<now, maxEmailsPerHour, ticksPerHour, storeVars, jobVars, kvVars, reqIdx, reqNow, reqDelay,
                 req, campaign, response,
                 sendCalls, enqCalls, granted, faultsLeft, crashesLeft>>

\* close() has returned: process.exit(0). A createCampaign request still in
\* progress dies with the process.
Exit ==
  /\ workerState = "closing"
  /\ Running = {}
  /\ workerState' = "exited"
  /\ pc' = [p \in Procs |-> "idle"]
  /\ rlSender' = [p \in Procs |-> NoSender]
  /\ rlHour' = [p \in Procs |-> 0]
  /\ rlCount' = [p \in Procs |-> 0]
  /\ err' = [p \in Procs |-> "none"]
  /\ admit' = [p \in Procs |-> "none"]
  /\ charged' = [p \in Procs |-> {}]
  /\ reqPc' = IF reqPc = "idle" THEN "idle" ELSE "done"
  /\ UNCHANGED <<now, maxEmailsPerHour, ticksPerHour, storeVars, jobVars, kvVars, reqIdx, reqNow, reqDelay,
                 req, campaign, response,
                 sendCalls, enqCalls, granted, faultsLeft, crashesLeft>>

\* ------------------------------------------------------------------ queue
\* QueueAdd without the jobId check: the add replaces the job it finds.
QueueAddOverwrite(d, delay) ==
  /\ jState' = [jState EXCEPT ![d] = IF delay > 0 THEN "delayed" ELSE "wait"]
  /\ jReadyAt' = [jReadyAt EXCEPT ![d] = now + delay]
  /\ jAttempts' = [jAttempts EXCEPT ![d] = 0]
  /\ jStalled' = [jStalled EXCEPT ![d] = 0]
  /\ UNCHANGED completedJobs

\* reachinboxScheduler.add(name, data, {delay, jobId}): BullMQ ignores an add
\* whose jobId already exists; a new job is delayed, or waiting when delay = 0.
QueueAdd(d, delay) ==
  IF jState[d] # "none"
  THEN UNCHANGED jobVars
  ELSE /\ jState' = [jState EXCEPT ![d] = IF delay > 0 THEN "delayed" ELSE "wait"]
       /\ jReadyAt' = [jReadyAt EXCEPT ![d] = now + delay]
       /\ jAttempts' = [jAttempts EXCEPT ![d] = 0]
       /\ jStalled' = [jStalled EXCEPT ![d] = 0]
       /\ UNCHANGED completedJobs

\* enqueueOutgoingMail adding the task under the id of another dispatch.
enqueueOutgoingMailOtherId(d, delay) ==
  /\ QueueAdd((d % MaxRecipients) + 1, delay)
  /\ enqCalls' = [enqCalls EXCEPT ![(d % MaxRecipients) + 1] = @ + 1]

\* enqueueOutgoingMail(taskData, calculatedDelay): the job id is
\* emailTask-<dispatchId>
enqueueOutgoingMail(d, delay) ==
  /\ QueueAdd(d, delay)
  /\ enqCalls' = [enqCalls EXCEPT ![d] = @ + 1]

\* moveToDelayed taking the job out of the queue instead of delaying it.
moveToDelayedDropped(d, timestamp) ==
  /\ jState' = [jState EXCEPT ![d] = "none"]
  /\ jReadyAt' = [jReadyAt EXCEPT ![d] = now + Max(timestamp - now, 0)]
  /\ UNCHANGED <<jAttempts, jStalled, completedJobs>>

\* job.moveToDelayed(timestamp): BullMQ takes the absolute epoch timestamp at
\* which the job goes back to wait and delays the job by max(timestamp - now, 0).
moveToDelayed(d, timestamp) ==
  /\ jState' = [jState EXCEPT ![d] = "delayed"]
  /\ jReadyAt' = [jReadyAt EXCEPT ![d] = now + Max(timestamp - now, 0)]
  /\ UNCHANGED <<jAttempts, jStalled, completedJobs>>

\* moveToFailed without the attempts limit: the job is always retried.
moveToFailedForever(d) ==
  /\ jAttempts' = [jAttempts EXCEPT ![d] = @ + 1]
  /\ jState' = [jState EXCEPT ![d] = "delayed"]
  /\ jReadyAt' = [jReadyAt EXCEPT ![d] = now]
  /\ UNCHANGED <<jStalled, completedJobs>>

\* The processor threw: attemptsMade advances; the job is retried after the
\* exponential backoff while attempts remain, and is failed for good otherwise.
moveToFailed(d) ==
  /\ jAttempts' = [jAttempts EXCEPT ![d] = @ + 1]
  /\ IF jAttempts[d] + 1 < MaxAttempts
     THEN /\ jState' = [jState EXCEPT ![d] = "delayed"]
          /\ jReadyAt' = [jReadyAt EXCEPT ![d] = now + BackoffTicks(jAttempts[d] + 1)]
     ELSE /\ jState' = [jState EXCEPT ![d] = "failed"]
          /\ UNCHANGED jReadyAt
  /\ UNCHANGED <<jStalled, completedJobs>>

\* The stalled-jobs check of a running worker: an active job nobody is
\* executing goes back to wait, or fails once it stalled more than
\* maxStalledCount times.
RecoverStalled(d) ==
  /\ jState[d] = "active"
  /\ pc[d] = "idle"
  /\ jStalled' = [jStalled EXCEPT ![d] = @ + 1]
  /\ jState' = [jState EXCEPT ![d] =
                  IF jStalled[d] + 1 > MaxStalledCount THEN "failed" ELSE "wait"]
  /\ UNCHANGED <<jReadyAt, jAttempts, completedJobs>>
  /\ UNCHANGED <<now, maxEmailsPerHour, ticksPerHour, storeVars, kvVars, reqVars, pc, rlLocals, err, histVars>>

\* ---------------------------------------------------------------- ingress
DelayBetweenTicks == MinDelayBetweenEmailsMs \div TickMs

\* the recipient list of the scheduler runs: NumDispatch distinct mailboxes
DefaultEmails == [i \in 1..NumDispatch |-> <<i, "lower">>]

\* createCampaign refusing every start time before now.
createCampaignNoTolerance(recipientEmails, startTime, delayBetweenMs, hourlyLimit) ==
  /\ reqPc = "idle"
  /\ workerState # "exited"
  /\ LET uniqueEmails == Dedup(recipientEmails)
         between == IF Truthy(delayBetweenMs) THEN delayBetweenMs
                    ELSE MinDelayBetweenEmailsMs
         hourly == IF Truthy(hourlyLimit) THEN hourlyLimit
                   ELSE MaxEmailsPerHourPerSender
     IN
     /\ req' = [recipientEmails |-> recipientEmails, startTime |-> startTime,
                delayBetweenMs |-> delayBetweenMs, hourlyLimit |-> hourlyLimit,
                emailsToProcess |-> uniqueEmails, delayBetween |-> between \div TickMs,
                dispatchResults |-> <<>>]
     /\ reqNow' = now
     /\ reqIdx' = 1
     /\ IF startTime < now
        THEN /\ reqPc' = "done"
             /\ response' = [NoResponse EXCEPT !.code = 400,
                                              !.error = "Start time cannot be in the past"]
             /\ UNCHANGED <<campaign, reqDelay>>
        ELSE /\ reqPc' = "insert"
             /\ reqDelay' = Max(0, startTime - now)
             /\ campaign' = [status |-> "SCHEDULED", delayBetweenMs |-> between,
                             hourlyLimit |-> hourly]
             /\ UNCHANGED response
  /\ UNCHANGED <<now, maxEmailsPerHour, ticksPerHour, storeVars, jobVars, kvVars, pc, rlLocals, err, histVars>>

\* POST /api/campaigns up to the campaign insert: the recipients are
\* deduplicated, the defaults applied with `||`, now is read once, a start
\* time more than the tolerance in the past is answered with 400, and
\* baseDelay is max(0, startTime - now).
createCampaign(recipientEmails, startTime, delayBetweenMs, hourlyLimit) ==
  /\ reqPc = "idle"
  /\ workerState # "exited"
  /\ LET uniqueEmails == Dedup(recipientEmails)
         between == IF Truthy(delayBetweenMs) THEN delayBetweenMs
                    ELSE MinDelayBetweenEmailsMs
         hourly == IF Truthy(hourlyLimit) THEN hourlyLimit
                   ELSE MaxEmailsPerHourPerSender
     IN
     /\ req' = [recipientEmails |-> recipientEmails, startTime |-> startTime,
                delayBetweenMs |-> delayBetweenMs, hourlyLimit |-> hourlyLimit,
                emailsToProcess |-> uniqueEmails, delayBetween |-> between \div TickMs,
                dispatchResults |-> <<>>]
     /\ reqNow' = now
     /\ reqIdx' = 1
     /\ IF startTime < now - (PastToleranceMs \div TickMs)
        THEN /\ reqPc' = "done"
             /\ response' = [NoResponse EXCEPT !.code = 400,
                                              !.error = "Start time cannot be in the past"]
             /\ UNCHANGED <<campaign, reqDelay>>
        ELSE /\ reqPc' = "insert"
             /\ reqDelay' = Max(0, startTime - now)
             /\ campaign' = [status |-> "SCHEDULED", delayBetweenMs |-> between,
                             hourlyLimit |-> hourly]
             /\ UNCHANGED response
  /\ UNCHANGED <<now, maxEmailsPerHour, ticksPerHour, storeVars, jobVars, kvVars, pc, rlLocals, err, histVars>>

\* a request of the scheduler runs: DefaultEmails, a start time baseDelay
\* ahead, no delayBetweenMs and no hourlyLimit
StartRequest(baseDelay) ==
  createCampaign(DefaultEmails, now + baseDelay, NoValue, NoValue)

\* delayOf without the base delay.
delayOfSpacingOnly(index) == (index - 1) * req.delayBetween

\* delay = baseDelay + index * delayBetweenMs, index counted from 1 here
delayOf(index) == reqDelay + (index - 1) * req.delayBetween

\* NextRecipient reporting the length of the list before deduplication.
NextRecipientRawTotal(success) ==
  LET results == Append(req.dispatchResults, success)
      last == reqIdx = Len(req.emailsToProcess)
      successful == Cardinality({i \in 1..Len(results) : results[i]})
  IN /\ req' = [req EXCEPT !.dispatchResults = results]
     /\ reqIdx' = reqIdx + 1
     /\ reqPc' = IF last THEN "done" ELSE "insert"
     /\ IF ~last
        THEN UNCHANGED <<campaign, response>>
        ELSE IF successful = 0
        THEN /\ response' = [NoResponse EXCEPT !.code = 400,
                                              !.error = "Failed to create any email dispatches"]
             /\ UNCHANGED campaign
        ELSE /\ campaign' = [campaign EXCEPT !.status = "IN_PROGRESS"]
             /\ response' = [code |-> 201, error |-> "", dispatchCount |-> successful,
                             totalEmails |-> Len(req.recipientEmails),
                             failed |-> Len(results) - successful]
     /\ UNCHANGED <<reqNow, reqDelay>>

\* NextRecipient without the check for at least one created dispatch.
NextRecipientAlwaysInProgress(success) ==
  LET results == Append(req.dispatchResults, success)
      last == reqIdx = Len(req.emailsToProcess)
      successful == Cardinality({i \in 1..Len(results) : results[i]})
  IN /\ req' = [req EXCEPT !.dispatchResults = results]
     /\ reqIdx' = reqIdx + 1
     /\ reqPc' = IF last THEN "done" ELSE "insert"
     /\ IF ~last
        THEN UNCHANGED <<campaign, response>>
        ELSE /\ campaign' = [campaign EXCEPT !.status = "IN_PROGRESS"]
             /\ response' = [code |-> 201, error |-> "", dispatchCount |-> successful,
                             totalEmails |-> Len(req.emailsToProcess),
                             failed |-> Len(results) - successful]
     /\ UNCHANGED <<reqNow, reqDelay>>

\* dispatchResults.push(...) and the next turn of the loop; after the last
\* recipient: 400 when no dispatch was created, else the campaign goes to
\* IN_PROGRESS and the response carries the counts.
NextRecipient(success) ==
  LET results == Append(req.dispatchResults, success)
      last == reqIdx = Len(req.emailsToProcess)
      successful == Cardinality({i \in 1..Len(results) : results[i]})
  IN /\ req' = [req EXCEPT !.dispatchResults = results]
     /\ reqIdx' = reqIdx + 1
     /\ reqPc' = IF last THEN "done" ELSE "insert"
     /\ IF ~last
        THEN UNCHANGED <<campaign, response>>
        ELSE IF successful = 0
        THEN /\ response' = [NoResponse EXCEPT !.code = 400,
                                              !.error = "Failed to create any email dispatches"]
             /\ UNCHANGED campaign
        ELSE /\ campaign' = [campaign EXCEPT !.status = "IN_PROGRESS"]
             /\ response' = [code |-> 201, error |-> "", dispatchCount |-> successful,
                             totalEmails |-> Len(req.emailsToProcess),
                             failed |-> Len(results) - successful]
     /\ UNCHANGED <<reqNow, reqDelay>>

\* the row of this campaign whose recipientEmail equals, under the
\* collation of the column, the one about to be inserted
DuplicateOf(index) ==
  {j \in 1..Len(req.emailsToProcess) :
     /\ j # index
     /\ dStatus[j] # "NONE"
     /\ Fold(req.emailsToProcess[j]) = Fold(req.emailsToProcess[index])}

\* InsertDispatch going on to the enqueue after a refused insert.
InsertDispatchEnqueueAnyway ==
  /\ reqPc = "insert"
  /\ IF DuplicateOf(reqIdx) # {}
     THEN UNCHANGED storeVars
     ELSE /\ dStatus' = [dStatus EXCEPT ![reqIdx] = "SCHEDULED"]
          /\ dScheduled' = [dScheduled EXCEPT ![reqIdx] = ToDatetime(reqNow + delayOf(reqIdx))]
          /\ UNCHANGED <<dSent, dError>>
  /\ reqPc' = "enqueue"
  /\ UNCHANGED <<reqIdx, reqNow, reqDelay, req, campaign, response>>
  /\ UNCHANGED <<now, maxEmailsPerHour, ticksPerHour, jobVars, kvVars, pc, rlLocals, err, histVars>>

\* INSERT INTO MailDispatch ... 'SCHEDULED' for the recipient at reqIdx; the
\* unique key (campaignId, recipientEmail) refuses a second row for the same
\* recipient with ER_DUP_ENTRY, which the catch records as a failure.
InsertDispatch ==
  /\ reqPc = "insert"
  /\ IF DuplicateOf(reqIdx) # {}
     THEN /\ NextRecipient(FALSE)
          /\ UNCHANGED storeVars
     ELSE /\ dStatus' = [dStatus EXCEPT ![reqIdx] = "SCHEDULED"]
          /\ dScheduled' = [dScheduled EXCEPT ![reqIdx] = ToDatetime(reqNow + delayOf(reqIdx))]
          /\ reqPc' = "enqueue"
          /\ UNCHANGED <<dSent, dError, reqIdx, reqNow, reqDelay, req, campaign, response>>
  /\ UNCHANGED <<now, maxEmailsPerHour, ticksPerHour, jobVars, kvVars, pc, rlLocals, err, histVars>>

\* the INSERT throws for another reason than the unique key (MySQL error):
\* no row is written, the catch records the recipient as failed and the loop
\* goes on.
InsertDispatchFault ==
  /\ reqPc = "insert"
  /\ DuplicateOf(reqIdx) = {}
  /\ faultsLeft > 0
  /\ faultsLeft' = faultsLeft - 1
  /\ NextRecipient(FALSE)
  /\ UNCHANGED <<now, maxEmailsPerHour, ticksPerHour, storeVars, jobVars, kvVars, pc, rlLocals, err,
                 admit, charged, sendCalls, enqCalls, granted, crashesLeft, workerState>>

\* await enqueueOutgoingMail(mailTask, delay) for the recipient at reqIdx
EnqueueTask ==
  /\ reqPc = "enqueue"
  /\ enqueueOutgoingMail(reqIdx, delayOf(reqIdx))
  /\ NextRecipient(TRUE)
  /\ UNCHANGED <<now, maxEmailsPerHour, ticksPerHour, storeVars, kvVars, pc, rlLocals, err,
                 admit, charged, sendCalls, granted, faultsLeft, crashesLeft, workerState>>

\* EnqueueTaskFault with the exception leaving the loop: the request ends
\* with 500.
EnqueueTaskFaultAborts ==
  /\ reqPc = "enqueue"
  /\ faultsLeft > 0
  /\ faultsLeft' = faultsLeft - 1
  /\ req' = [req EXCEPT !.dispatchResults = Append(@, FALSE)]
  /\ reqIdx' = reqIdx + 1
  /\ reqPc' = "done"
  /\ response' = [NoResponse EXCEPT !.code = 500]
  /\ UNCHANGED <<reqNow, reqDelay, campaign>>
  /\ UNCHANGED <<now, maxEmailsPerHour, ticksPerHour, storeVars, jobVars, kvVars, pc, rlLocals, err,
                 admit, charged, sendCalls, enqCalls, granted, crashesLeft, workerState>>

\* the enqueue throws (Redis error): the catch records the recipient as
\* failed and the loop goes on; the dispatch row stays.
EnqueueTaskFault ==
  /\ reqPc = "enqueue"
  /\ faultsLeft > 0
  /\ faultsLeft' = faultsLeft - 1
  /\ NextRecipient(FALSE)
  /\ UNCHANGED <<now, maxEmailsPerHour, ticksPerHour, storeVars, jobVars, kvVars, pc, rlLocals, err,
                 admit, charged, sendCalls, enqCalls, granted, crashesLeft, workerState>>

\* The campaign is deleted in MySQL: its MailDispatch rows go with it
\* (FOREIGN KEY (campaignId) ... ON DELETE CASCADE); the queue is not told.
DeleteDispatch(d) ==
  /\ dStatus[d] # "NONE"
  /\ dStatus' = [dStatus EXCEPT ![d] = "NONE"]
  /\ dScheduled' = [dScheduled EXCEPT ![d] = 0]
  /\ dSent' = [dSent EXCEPT ![d] = 0]
  /\ dError' = [dError EXCEPT ![d] = FALSE]
  /\ UNCHANGED <<now, maxEmailsPerHour, ticksPerHour, jobVars, kvVars, reqVars, pc, rlLocals, err, histVars>>

\* enqueueOutgoingMail called again for a dispatch that was enqueued before
ReEnqueue(d, delay) ==
  /\ enqCalls[d] >= 1
  /\ enqCalls[d] < MaxEnqueues
  /\ enqueueOutgoingMail(d, delay)
  /\ UNCHANGED <<now, maxEmailsPerHour, ticksPerHour, storeVars, kvVars, reqVars, pc, rlLocals, err,
                 admit, charged, sendCalls, granted, faultsLeft, crashesLeft, workerState>>


\* ----------------------------------------------------------- rate limiter
\* A Redis, MySQL or SMTP call fails: one of the faults left is spent.
Fault ==
  /\ faultsLeft > 0
  /\ faultsLeft' = faultsLeft - 1

\* The locals of a caller of checkRateLimit go out of scope with the call;
\* those of a task execution live on in processEmailDelivery.
RlLocalsAfter(p) ==
  IF p \in Callers
  THEN /\ rlSender' = [rlSender EXCEPT ![p] = NoSender]
       /\ rlHour' = [rlHour EXCEPT ![p] = 0]
       /\ rlCount' = [rlCount EXCEPT ![p] = 0]
  ELSE UNCHANGED rlLocals

\* An exception leaves checkRateLimit: it lands in the catch block of
\* processEmailDelivery for a task, at the caller otherwise.
RlThrow(p) ==
  /\ pc' = [pc EXCEPT ![p] = IF p \in Dispatches THEN "catch" ELSE "idle"]
  /\ err' = [err EXCEPT ![p] = IF p \in Dispatches THEN "other" ELSE "none"]
  /\ RlLocalsAfter(p)

\* RlReturn with the worker going on to the send whatever the result.
RlReturnIgnored(p, allowed) ==
  /\ pc' = [pc EXCEPT ![p] = IF p \in Callers THEN "idle" ELSE "sleep"]
  /\ admit' = [admit EXCEPT ![p] = IF p \in Callers THEN @
                                   ELSE IF allowed THEN "allowed" ELSE "rejected"]
  /\ granted' = [k \in Keys |->
                  IF allowed /\ k[2] = rlHour[p] /\ k[1] \in {"global", rlSender[p]}
                  THEN granted[k] + 1 ELSE granted[k]]
  /\ RlLocalsAfter(p)

\* return {allowed, remaining, resetTime} to the caller: the worker goes on
\* at `if (!rateLimitResult.allowed)`.
RlReturn(p, allowed) ==
  /\ pc' = [pc EXCEPT ![p] = IF p \in Callers THEN "idle"
                             ELSE IF allowed THEN "sleep" ELSE "markRL"]
  /\ admit' = [admit EXCEPT ![p] = IF p \in Callers THEN @
                                   ELSE IF allowed THEN "allowed" ELSE "rejected"]
  /\ granted' = [k \in Keys |->
                  IF allowed /\ k[2] = rlHour[p] /\ k[1] \in {"global", rlSender[p]}
                  THEN granted[k] + 1 ELSE granted[k]]
  /\ RlLocalsAfter(p)

\* INCR and DECR create a key that does not exist, without a TTL; EXPIRE
\* sets the TTL of a key that exists and does nothing otherwise.
Touched(k) ==
  kvTtl' = [kvTtl EXCEPT ![k] = IF @ = NoKey THEN 0 ELSE @]

\* Expire setting a TTL only on a key that has none (EXPIRE ... NX).
ExpireOnce(k) ==
  kvTtl' = [kvTtl EXCEPT ![k] = IF @ = 0 THEN now + TtlTicks ELSE @]

\* redis.expire(key, 3600)
Expire(k) ==
  kvTtl' = [kvTtl EXCEPT ![k] = IF @ = NoKey THEN @ ELSE now + TtlTicks]

\* the counters this execution has charged and neither rolled back nor used
Charge(p, scope) ==
  charged' = [charged EXCEPT ![p] = IF p \in Dispatches THEN @ \cup {scope} ELSE @]

Discharge(p, scope) ==
  charged' = [charged EXCEPT ![p] = @ \ {scope}]

\* globalCount = await redis.incr(globalKey), the key being the one of the
\* hour in which the call was entered
RlIncrGlobal(p) ==
  /\ pc[p] = "rl_incrG"
  /\ \/ /\ kv' = [kv EXCEPT ![<<"global", rlHour[p]>>] = @ + 1]
        /\ Touched(<<"global", rlHour[p]>>)
        /\ rlCount' = [rlCount EXCEPT ![p] = kv[<<"global", rlHour[p]>>] + 1]
        /\ Charge(p, "global")
        /\ pc' = [pc EXCEPT ![p] = "rl_expG"]
        /\ UNCHANGED <<rlSender, rlHour, err, faultsLeft>>
     \/ /\ Fault
        /\ RlThrow(p)
        /\ UNCHANGED <<kv, kvTtl, charged>>
  /\ UNCHANGED <<now, maxEmailsPerHour, ticksPerHour, storeVars, jobVars, reqVars,
                 admit, sendCalls, enqCalls, granted, crashesLeft, workerState>>

\* RlExpireGlobal rejecting the call whose count reaches the ceiling.
RlExpireGlobalAtCeiling(p) ==
  /\ pc[p] = "rl_expG"
  /\ \/ /\ Expire(<<"global", rlHour[p]>>)
        /\ IF rlCount[p] >= maxEmailsPerHour
           THEN /\ pc' = [pc EXCEPT ![p] = "rl_decrG"]
                /\ UNCHANGED <<admit, granted, rlLocals>>
           ELSE IF rlSender[p] # NoSender
           THEN /\ pc' = [pc EXCEPT ![p] = "rl_incrS"]
                /\ UNCHANGED <<admit, granted, rlLocals>>
           ELSE RlReturn(p, TRUE)
        /\ UNCHANGED <<err, faultsLeft>>
     \/ /\ Fault
        /\ RlThrow(p)
        /\ UNCHANGED <<kvTtl, admit, granted>>
  /\ UNCHANGED <<now, maxEmailsPerHour, ticksPerHour, storeVars, jobVars, kv, reqVars,
                 charged, sendCalls, enqCalls, crashesLeft, workerState>>

\* await redis.expire(globalKey, 3600); if (globalCount > maxEmailsPerHour) ...
RlExpireGlobal(p) ==
  /\ pc[p] = "rl_expG"
  /\ \/ /\ Expire(<<"global", rlHour[p]>>)
        /\ IF rlCount[p] > maxEmailsPerHour
           THEN /\ pc' = [pc EXCEPT ![p] = "rl_decrG"]
                /\ UNCHANGED <<admit, granted, rlLocals>>
           ELSE IF rlSender[p] # NoSender
           THEN /\ pc' = [pc EXCEPT ![p] = "rl_incrS"]
                /\ UNCHANGED <<admit, granted, rlLocals>>
           ELSE RlReturn(p, TRUE)
        /\ UNCHANGED <<err, faultsLeft>>
     \/ /\ Fault
        /\ RlThrow(p)
        /\ UNCHANGED <<kvTtl, admit, granted>>
  /\ UNCHANGED <<now, maxEmailsPerHour, ticksPerHour, storeVars, jobVars, kv, reqVars,
                 charged, sendCalls, enqCalls, crashesLeft, workerState>>

\* await redis.decr(globalKey); return {allowed: false, ...}
\* (the rollback of the global check and the one after the sender rollback)
RlDecrGlobal(p) ==
  /\ pc[p] = "rl_decrG"
  /\ \/ /\ kv' = [kv EXCEPT ![<<"global", rlHour[p]>>] = @ - 1]
        /\ Touched(<<"global", rlHour[p]>>)
        /\ Discharge(p, "global")
        /\ RlReturn(p, FALSE)
        /\ UNCHANGED <<err, faultsLeft>>
     \/ /\ Fault
        /\ RlThrow(p)
        /\ UNCHANGED <<kv, kvTtl, charged, admit, granted>>
  /\ UNCHANGED <<now, maxEmailsPerHour, ticksPerHour, storeVars, jobVars, reqVars,
                 sendCalls, enqCalls, crashesLeft, workerState>>

\* senderCount = await redis.incr(senderKey)
RlIncrSender(p) ==
  /\ pc[p] = "rl_incrS"
  /\ \/ /\ kv' = [kv EXCEPT ![<<rlSender[p], rlHour[p]>>] = @ + 1]
        /\ Touched(<<rlSender[p], rlHour[p]>>)
        /\ rlCount' = [rlCount EXCEPT ![p] = kv[<<rlSender[p], rlHour[p]>>] + 1]
        /\ Charge(p, rlSender[p])
        /\ pc' = [pc EXCEPT ![p] = "rl_expS"]
        /\ UNCHANGED <<rlSender, rlHour, err, faultsLeft>>
     \/ /\ Fault
        /\ RlThrow(p)
        /\ UNCHANGED <<kv, kvTtl, charged>>
  /\ UNCHANGED <<now, maxEmailsPerHour, ticksPerHour, storeVars, jobVars, reqVars,
                 admit, sendCalls, enqCalls, granted, crashesLeft, workerState>>

\* await redis.expire(senderKey, 3600); if (senderCount > maxEmailsPerHourPerSender) ...
RlExpireSender(p) ==
  /\ pc[p] = "rl_expS"
  /\ \/ /\ Expire(<<rlSender[p], rlHour[p]>>)
        /\ IF rlCount[p] > MaxEmailsPerHourPerSender
           THEN /\ pc' = [pc EXCEPT ![p] = "rl_decrS"]
                /\ UNCHANGED <<admit, granted, rlLocals>>
           ELSE RlReturn(p, TRUE)
        /\ UNCHANGED <<err, faultsLeft>>
     \/ /\ Fault
        /\ RlThrow(p)
        /\ UNCHANGED <<kvTtl, admit, granted>>
  /\ UNCHANGED <<now, maxEmailsPerHour, ticksPerHour, storeVars, jobVars, kv, reqVars,
                 charged, sendCalls, enqCalls, crashesLeft, workerState>>

\* await redis.decr(senderKey), then on to the global rollback
RlDecrSender(p) ==
  /\ pc[p] = "rl_decrS"
  /\ \/ /\ kv' = [kv EXCEPT ![<<rlSender[p], rlHour[p]>>] = @ - 1]
        /\ Touched(<<rlSender[p], rlHour[p]>>)
        /\ Discharge(p, rlSender[p])
        /\ pc' = [pc EXCEPT ![p] = "rl_decrG"]
        /\ UNCHANGED <<rlLocals, err, faultsLeft>>
     \/ /\ Fault
        /\ RlThrow(p)
        /\ UNCHANGED <<kv, kvTtl, charged>>
  /\ UNCHANGED <<now, maxEmailsPerHour, ticksPerHour, storeVars, jobVars, reqVars,
                 admit, sendCalls, enqCalls, granted, crashesLeft, workerState>>

\* the steps of a call without senderId
checkRateLimitGlobal(p) ==
  \/ RlIncrGlobal(p)
  \/ RlExpireGlobal(p)
  \/ RlDecrGlobal(p)

\* the further steps of a call with a senderId
checkRateLimitSender(p) ==
  \/ RlIncrSender(p)
  \/ RlExpireSender(p)
  \/ RlDecrSender(p)

\* A caller enters checkRateLimit(senderId): hourKey = getHourKey() and
\* resetTime are computed before the first Redis call goes out.
CallRateLimit(c, senderId) ==
  /\ pc[c] = "idle"
  /\ pc' = [pc EXCEPT ![c] = "rl_incrG"]
  /\ rlSender' = [rlSender EXCEPT ![c] = senderId]
  /\ rlHour' = [rlHour EXCEPT ![c] = getHourKey(now)]
  /\ UNCHANGED <<now, maxEmailsPerHour, ticksPerHour, storeVars, jobVars, kvVars, reqVars,
                 rlCount, err, histVars>>


\* ----------------------------------------------------------------- worker
\* Reserve taking jobs from the active list as well.
ReserveActive(d) ==
  /\ jState[d] \in {"wait", "delayed", "active"}
  /\ pc[d] = "idle"
  /\ Cardinality(Running) < WorkerConcurrency
  /\ jState' = [jState EXCEPT ![d] = "active"]
  /\ pc' = [pc EXCEPT ![d] = "load"]
  /\ UNCHANGED <<now, maxEmailsPerHour, ticksPerHour, storeVars, jReadyAt, jAttempts, jStalled,
                 completedJobs, kvVars, reqVars, rlLocals, err, histVars>>

\* The Worker takes a job whose ready-at has passed into a free slot
\* (concurrency: workerConcurrency) and calls processEmailDelivery(job).
Reserve(d) ==
  /\ workerState = "running"
  /\ \/ jState[d] = "wait"
     \/ jState[d] = "delayed" /\ jReadyAt[d] <= now
  /\ Cardinality(Running) < WorkerConcurrency
  /\ jState' = [jState EXCEPT ![d] = "active"]
  /\ pc' = [pc EXCEPT ![d] = "load"]
  /\ UNCHANGED <<now, maxEmailsPerHour, ticksPerHour, storeVars, jReadyAt, jAttempts, jStalled,
                 completedJobs, kvVars, reqVars, rlLocals, err, histVars>>

\* LoadDispatch without the SENT check.
LoadDispatchUnguarded(d) ==
  /\ pc[d] = "load"
  /\ pc' = [pc EXCEPT ![d] = "mark"]
  /\ UNCHANGED <<now, maxEmailsPerHour, ticksPerHour, storeVars, jobVars, kvVars, reqVars, rlLocals,
                 err, histVars>>

\* SELECT status FROM MailDispatch WHERE id = ?; return when it is SENT
LoadDispatch(d) ==
  /\ pc[d] = "load"
  /\ \/ /\ pc' = [pc EXCEPT ![d] = IF dStatus[d] = "SENT" THEN "ack" ELSE "mark"]
        /\ UNCHANGED <<err, faultsLeft>>
     \/ /\ Fault
        /\ pc' = [pc EXCEPT ![d] = "throw"]
        /\ err' = [err EXCEPT ![d] = "other"]
  /\ UNCHANGED <<now, maxEmailsPerHour, ticksPerHour, storeVars, jobVars, kvVars, reqVars, rlLocals,
                 admit, charged, sendCalls, enqCalls, granted, crashesLeft, workerState>>

\* MarkSending with a retry going on to the send on the admission of the
\* first attempt, without a new call of checkRateLimit.
MarkSendingRetryKeepsAdmission(d) ==
  /\ pc[d] = "mark"
  /\ \/ /\ dStatus' = [dStatus EXCEPT ![d] = IF @ = "NONE" THEN @ ELSE "SENDING"]
        /\ pc' = [pc EXCEPT ![d] = IF jAttempts[d] > 0 THEN "sleep" ELSE "rl_incrG"]
        /\ admit' = [admit EXCEPT ![d] = IF jAttempts[d] > 0 THEN "allowed" ELSE @]
        /\ rlSender' = [rlSender EXCEPT ![d] = NoSender]
        /\ rlHour' = [rlHour EXCEPT ![d] = getHourKey(now)]
        /\ UNCHANGED <<err, faultsLeft>>
     \/ /\ Fault
        /\ pc' = [pc EXCEPT ![d] = "throw"]
        /\ err' = [err EXCEPT ![d] = "other"]
        /\ UNCHANGED <<dStatus, rlSender, rlHour, admit>>
  /\ UNCHANGED <<now, maxEmailsPerHour, ticksPerHour, dScheduled, dSent, dError, jobVars, kvVars, reqVars,
                 rlCount, charged, sendCalls, enqCalls, granted, crashesLeft, workerState>>

\* UPDATE MailDispatch SET status = 'SENDING'; then checkRateLimit(senderId)
\* is entered with the payload's senderId, which the ingress never sets:
\* hourKey and resetTime are computed before the first Redis call goes out.
MarkSending(d) ==
  /\ pc[d] = "mark"
  /\ \/ /\ dStatus' = [dStatus EXCEPT ![d] = IF @ = "NONE" THEN @ ELSE "SENDING"]
        /\ pc' = [pc EXCEPT ![d] = "rl_incrG"]
        /\ rlSender' = [rlSender EXCEPT ![d] = NoSender]
        /\ rlHour' = [rlHour EXCEPT ![d] = getHourKey(now)]
        /\ UNCHANGED <<err, faultsLeft>>
     \/ /\ Fault
        /\ pc' = [pc EXCEPT ![d] = "throw"]
        /\ err' = [err EXCEPT ![d] = "other"]
        /\ UNCHANGED <<dStatus, rlSender, rlHour>>
  /\ UNCHANGED <<now, maxEmailsPerHour, ticksPerHour, dScheduled, dSent, dError, jobVars, kvVars, reqVars,
                 rlCount, admit, charged, sendCalls, enqCalls, granted, crashesLeft, workerState>>

\* MarkRateLimited putting the dispatch back to SCHEDULED.
MarkRateLimitedAsScheduled(d) ==
  /\ pc[d] = "markRL"
  /\ dStatus' = [dStatus EXCEPT ![d] = IF @ = "NONE" THEN @ ELSE "SCHEDULED"]
  /\ dScheduled' = [dScheduled EXCEPT ![d] = resetTimeOf(rlHour[d])]
  /\ pc' = [pc EXCEPT ![d] = "moveDelayed"]
  /\ UNCHANGED <<now, maxEmailsPerHour, ticksPerHour, dSent, dError, jobVars, kvVars, reqVars, rlLocals,
                 err, histVars>>

\* UPDATE MailDispatch SET status = 'RATE_LIMITED', scheduledTime = resetTime
MarkRateLimited(d) ==
  /\ pc[d] = "markRL"
  /\ \/ /\ dStatus' = [dStatus EXCEPT ![d] = IF @ = "NONE" THEN @ ELSE "RATE_LIMITED"]
        /\ dScheduled' = [dScheduled EXCEPT ![d] = resetTimeOf(rlHour[d])]
        /\ pc' = [pc EXCEPT ![d] = "moveDelayed"]
        /\ UNCHANGED <<err, faultsLeft>>
     \/ /\ Fault
        /\ pc' = [pc EXCEPT ![d] = "catch"]
        /\ err' = [err EXCEPT ![d] = "other"]
        /\ UNCHANGED <<dStatus, dScheduled>>
  /\ UNCHANGED <<now, maxEmailsPerHour, ticksPerHour, dSent, dError, jobVars, kvVars, reqVars, rlLocals,
                 admit, charged, sendCalls, enqCalls, granted, crashesLeft, workerState>>

\* delayUntilNextHour = resetTime - Date.now(); when positive,
\* await job.moveToDelayed(delayUntilNextHour) and return, else throw.
\* The processor returns with the job no longer active, so the worker's
\* attempt to complete it is refused and the job stays where it was put.
RescheduleOrThrow(d) ==
  /\ pc[d] = "moveDelayed"
  /\ LET delayUntilNextHour == resetTimeOf(rlHour[d]) - now IN
     \/ /\ delayUntilNextHour > 0
        /\ moveToDelayed(d, delayUntilNextHour)
        /\ EndExecution(d)
        /\ UNCHANGED faultsLeft
     \/ /\ delayUntilNextHour > 0
        /\ Fault
        /\ pc' = [pc EXCEPT ![d] = "catch"]
        /\ err' = [err EXCEPT ![d] = "other"]
        /\ UNCHANGED <<jobVars, rlLocals, admit, charged>>
     \/ /\ delayUntilNextHour <= 0
        /\ pc' = [pc EXCEPT ![d] = "catch"]
        /\ err' = [err EXCEPT ![d] = "rate"]
        /\ UNCHANGED <<jobVars, faultsLeft, rlLocals, admit, charged>>
  /\ UNCHANGED <<now, maxEmailsPerHour, ticksPerHour, storeVars, kvVars, reqVars, sendCalls, enqCalls, granted, crashesLeft, workerState>>

\* await new Promise(resolve => setTimeout(resolve, minDelayBetweenEmailsMs))
Sleep(d) ==
  /\ pc[d] = "sleep"
  /\ pc' = [pc EXCEPT ![d] = "send"]
  /\ UNCHANGED <<now, maxEmailsPerHour, ticksPerHour, storeVars, jobVars, kvVars, reqVars, rlLocals, err, histVars>>

\* SendEmail waiting until no other execution is in its sleep.
SendEmailAfterSleepers(d) ==
  /\ pc[d] = "send"
  /\ \A e \in Dispatches \ {d} : pc[e] # "sleep"
  /\ sendCalls' = [sendCalls EXCEPT ![d] = @ + 1]
  /\ charged' = [charged EXCEPT ![d] = {}]
  /\ admit' = [admit EXCEPT ![d] = "used"]
  /\ \/ /\ pc' = [pc EXCEPT ![d] = "markSent"]
        /\ UNCHANGED <<err, faultsLeft>>
     \/ /\ Fault
        /\ pc' = [pc EXCEPT ![d] = "catch"]
        /\ err' = [err EXCEPT ![d] = "send"]
  /\ UNCHANGED <<now, maxEmailsPerHour, ticksPerHour, storeVars, jobVars, kvVars, reqVars, rlLocals,
                 enqCalls, granted, crashesLeft, workerState>>

\* await sendEmail(recipientEmail, subject, body): the transport accepts the
\* message or throws
SendEmail(d) ==
  /\ pc[d] = "send"
  /\ sendCalls' = [sendCalls EXCEPT ![d] = @ + 1]
  /\ charged' = [charged EXCEPT ![d] = {}]
  /\ admit' = [admit EXCEPT ![d] = "used"]
  /\ \/ /\ pc' = [pc EXCEPT ![d] = "markSent"]
        /\ UNCHANGED <<err, faultsLeft>>
     \/ /\ Fault
        /\ pc' = [pc EXCEPT ![d] = "catch"]
        /\ err' = [err EXCEPT ![d] = "send"]
  /\ UNCHANGED <<now, maxEmailsPerHour, ticksPerHour, storeVars, jobVars, kvVars, reqVars, rlLocals,
                 enqCalls, granted, crashesLeft, workerState>>

\* sendEmail while the transport is down (no transporter, SMTP unreachable):
\* every call throws
SendEmailFails(d) ==
  /\ pc[d] = "send"
  /\ sendCalls' = [sendCalls EXCEPT ![d] = @ + 1]
  /\ charged' = [charged EXCEPT ![d] = {}]
  /\ admit' = [admit EXCEPT ![d] = "used"]
  /\ pc' = [pc EXCEPT ![d] = "catch"]
  /\ err' = [err EXCEPT ![d] = "send"]
  /\ UNCHANGED <<now, maxEmailsPerHour, ticksPerHour, storeVars, jobVars, kvVars, reqVars, rlLocals,
                 enqCalls, granted, faultsLeft, crashesLeft, workerState>>

\* UPDATE MailDispatch SET status = 'SENT', sentTime = new Date(), ...
MarkSent(d) ==
  /\ pc[d] = "markSent"
  /\ \/ /\ dStatus' = [dStatus EXCEPT ![d] = IF @ = "NONE" THEN @ ELSE "SENT"]
        /\ dSent' = [dSent EXCEPT ![d] = ToDatetime(now)]
        /\ pc' = [pc EXCEPT ![d] = "ack"]
        /\ UNCHANGED <<err, faultsLeft>>
     \/ /\ Fault
        /\ pc' = [pc EXCEPT ![d] = "catch"]
        /\ err' = [err EXCEPT ![d] = "other"]
        /\ UNCHANGED <<dStatus, dSent>>
  /\ UNCHANGED <<now, maxEmailsPerHour, ticksPerHour, dScheduled, dError, jobVars, kvVars, reqVars, rlLocals,
                 admit, charged, sendCalls, enqCalls, granted, crashesLeft, workerState>>

\* CatchFailed giving the admission back: the global counter is decremented.
CatchFailedRollback(d) ==
  /\ pc[d] = "catch"
  /\ pc' = [pc EXCEPT ![d] = "throw"]
  /\ dStatus' = [dStatus EXCEPT ![d] = IF @ = "NONE" THEN @ ELSE "FAILED"]
  /\ dError' = [dError EXCEPT ![d] = TRUE]
  /\ kv' = [kv EXCEPT ![<<"global", rlHour[d]>>] = Max(@ - 1, 0)]
  /\ UNCHANGED <<now, maxEmailsPerHour, ticksPerHour, dScheduled, dSent, jobVars, kvTtl, reqVars, rlLocals, err,
                 admit, charged, sendCalls, enqCalls, granted, faultsLeft, crashesLeft, workerState>>

\* catch: UPDATE MailDispatch SET status = 'FAILED', errorMessage = ...; throw
CatchFailed(d) ==
  /\ pc[d] = "catch"
  /\ pc' = [pc EXCEPT ![d] = "throw"]
  /\ \/ /\ dStatus' = [dStatus EXCEPT ![d] = IF @ = "NONE" THEN @ ELSE "FAILED"]
        /\ dError' = [dError EXCEPT ![d] = TRUE]
        /\ UNCHANGED faultsLeft
     \/ /\ Fault
        /\ UNCHANGED <<dStatus, dError>>
  /\ UNCHANGED <<now, maxEmailsPerHour, ticksPerHour, dScheduled, dSent, jobVars, kvVars, reqVars, rlLocals, err,
                 admit, charged, sendCalls, enqCalls, granted, crashesLeft, workerState>>

\* processEmailDelivery returned: the worker moves the job to completed, and
\* the queue drops the oldest completed jobs beyond removeOnComplete.count
\* (those older than removeOnComplete.age, 24 h, go the same way).
Complete(d) ==
  /\ pc[d] = "ack"
  /\ EndExecution(d)
  /\ LET all == Append(completedJobs, d)
         drop == Max(Len(all) - KeepCompletedCount, 0)
         removed == {all[i] : i \in 1..drop}
     IN /\ completedJobs' = SubSeq(all, drop + 1, Len(all))
        /\ jState' = [x \in Dispatches |->
                        IF x \in removed THEN "none"
                        ELSE IF x = d THEN "completed" ELSE jState[x]]
        /\ jReadyAt' = [x \in Dispatches |-> IF x \in removed THEN 0 ELSE jReadyAt[x]]
        /\ jAttempts' = [x \in Dispatches |-> IF x \in removed THEN 0 ELSE jAttempts[x]]
        /\ jStalled' = [x \in Dispatches |-> IF x \in removed THEN 0 ELSE jStalled[x]]
  /\ UNCHANGED <<now, maxEmailsPerHour, ticksPerHour, storeVars, kvVars, reqVars,
                 sendCalls, enqCalls, granted, faultsLeft, crashesLeft, workerState>>

\* processEmailDelivery threw: the worker hands the job to the retry policy
FailJob(d) ==
  /\ pc[d] = "throw"
  /\ EndExecution(d)
  /\ moveToFailed(d)
  /\ UNCHANGED <<now, maxEmailsPerHour, ticksPerHour, storeVars, kvVars, reqVars,
                 sendCalls, enqCalls, granted, faultsLeft, crashesLeft, workerState>>

processEmailDelivery(d) ==
  \/ LoadDispatch(d)
  \/ MarkSending(d)
  \/ checkRateLimitGlobal(d)
  \/ MarkRateLimited(d)
  \/ RescheduleOrThrow(d)
  \/ Sleep(d)
  \/ SendEmail(d)
  \/ MarkSent(d)
  \/ CatchFailed(d)

\* ---------------------------------------------------------- specification
BaseDelays == 0..1

\* The scheduler and the worker pool, without failures of the environment.
NextCore ==
  \/ Tick
  \/ \E b \in BaseDelays : StartRequest(b)
  \/ InsertDispatch
  \/ EnqueueTask
  \/ \E d \in Dispatches : Reserve(d)
  \/ \E d \in Dispatches : processEmailDelivery(d)
  \/ \E d \in Dispatches : Complete(d)
  \/ \E d \in Dispatches : FailJob(d)

\* Spec: the system with up to MaxFaults failing MySQL, Redis or SMTP calls.
Init ==
  /\ ticksPerHour = TicksPerHour
  /\ now = StartTime
  /\ InitState
  /\ faultsLeft = MaxFaults
  /\ crashesLeft = 0
  /\ maxEmailsPerHour = SchedulerMaxEmailsPerHour

Next ==
  \/ NextCore
  \/ InsertDispatchFault
  \/ EnqueueTaskFault

Spec == Init /\ [][Next]_vars

\* SpecCrash: the system with up to MaxCrashes crashes of the process, each
\* followed by a restart; every MySQL, Redis and SMTP call succeeds.
InitCrash ==
  /\ ticksPerHour = TicksPerHour
  /\ now = StartTime
  /\ InitState
  /\ faultsLeft = 0
  /\ crashesLeft = MaxCrashes
  /\ maxEmailsPerHour = SchedulerMaxEmailsPerHour

NextCrash ==
  \/ NextCore
  \/ CrashRestart
  \/ \E d \in Dispatches : RecoverStalled(d)

SpecCrash == InitCrash /\ [][NextCrash]_vars

\* SpecEnqueue: the system without failures, with enqueueOutgoingMail
\* called again for dispatches that were enqueued before.
InitEnqueue ==
  /\ ticksPerHour = TicksPerHour
  /\ now = StartTime
  /\ InitState
  /\ faultsLeft = 0
  /\ crashesLeft = 0
  /\ maxEmailsPerHour = SchedulerMaxEmailsPerHour

NextEnqueue ==
  \/ NextCore
  \/ \E d \in Dispatches, b \in BaseDelays : ReEnqueue(d, b)

SpecEnqueue == InitEnqueue /\ [][NextEnqueue]_vars

\* SpecDelete: the system without failures, with campaigns deleted while
\* their tasks are in the queue.
InitDelete ==
  /\ ticksPerHour = TicksPerHour
  /\ now = StartTime
  /\ InitState
  /\ faultsLeft = 0
  /\ crashesLeft = 0
  /\ maxEmailsPerHour = SchedulerMaxEmailsPerHour

NextDelete ==
  \/ NextCore
  \/ \E d \in Dispatches : DeleteDispatch(d)

SpecDelete == InitDelete /\ [][NextDelete]_vars

\* SpecStop: the system without failures, with a termination signal.
InitStop ==
  /\ ticksPerHour = TicksPerHour
  /\ now = StartTime
  /\ InitState
  /\ faultsLeft = 0
  /\ crashesLeft = 0
  /\ maxEmailsPerHour = SchedulerMaxEmailsPerHour

NextStop ==
  \/ NextCore
  \/ Shutdown
  \/ Exit

SpecStop == InitStop /\ [][NextStop]_vars

\* SpecDown: the system with the transport down for good.
InitDown ==
  /\ ticksPerHour = TicksPerHour
  /\ now = StartTime
  /\ InitState
  /\ faultsLeft = 0
  /\ crashesLeft = 0
  /\ maxEmailsPerHour = LimiterMaxEmailsPerHour

NextDown ==
  \/ Tick
  \/ \E b \in BaseDelays : StartRequest(b)
  \/ InsertDispatch
  \/ EnqueueTask
  \/ \E d \in Dispatches : Reserve(d)
  \/ \E d \in Dispatches : LoadDispatch(d)
  \/ \E d \in Dispatches : MarkSending(d)
  \/ \E d \in Dispatches : RlIncrGlobal(d)
  \/ \E d \in Dispatches : RlExpireGlobal(d)
  \/ \E d \in Dispatches : RlDecrGlobal(d)
  \/ \E d \in Dispatches : MarkRateLimited(d)
  \/ \E d \in Dispatches : RescheduleOrThrow(d)
  \/ \E d \in Dispatches : Sleep(d)
  \/ \E d \in Dispatches : SendEmailFails(d)
  \/ \E d \in Dispatches : CatchFailed(d)
  \/ \E d \in Dispatches : FailJob(d)

SpecDown == InitDown /\ [][NextDown]_vars

\* SpecRetry: the system with the transport down for good, on a millisecond
\* clock that advances from one timer of the queue to the next.
InitRetry ==
  /\ ticksPerHour = HourMs
  /\ now = StartTime
  /\ InitState
  /\ faultsLeft = 0
  /\ crashesLeft = 0
  /\ maxEmailsPerHour = LimiterMaxEmailsPerHour

NextRetry ==
  \/ AdvanceClock
  \/ \E b \in BaseDelays : StartRequest(b)
  \/ InsertDispatch
  \/ EnqueueTask
  \/ \E d \in Dispatches : Reserve(d)
  \/ \E d \in Dispatches : LoadDispatch(d)
  \/ \E d \in Dispatches : MarkSending(d)
  \/ \E d \in Dispatches : RlIncrGlobal(d)
  \/ \E d \in Dispatches : RlExpireGlobal(d)
  \/ \E d \in Dispatches : RlDecrGlobal(d)
  \/ \E d \in Dispatches : MarkRateLimited(d)
  \/ \E d \in Dispatches : RescheduleOrThrow(d)
  \/ \E d \in Dispatches : Sleep(d)
  \/ \E d \in Dispatches : SendEmailFails(d)
  \/ \E d \in Dispatches : CatchFailed(d)
  \/ \E d \in Dispatches : FailJob(d)

SpecRetry == InitRetry /\ [][NextRetry]_vars

\* SpecCampaign: POST /api/campaigns on a millisecond clock, for every
\* request body of the input sets below, with up to MaxFaults failing
\* enqueues.
MsPerHour == HourMs
ClockOffsetsMs == {0, 400, 600}
StartOffsetsMs == {0 - 120000, 0 - 60001, 0 - 60000, 0 - 30000, 0, 60000}
DelayBetweenInputs == {NoValue, 0, 300}
HourlyLimitInputs == {NoValue, 5}
RecipientLists == UNION {[1..n -> Emails] : n \in 1..MaxRecipients}

InitCampaign ==
  /\ ticksPerHour = MsPerHour
  /\ now \in {StartTime + o : o \in ClockOffsetsMs}
  /\ InitState
  /\ faultsLeft = MaxFaults
  /\ crashesLeft = 0
  /\ maxEmailsPerHour = SchedulerMaxEmailsPerHour

NextCampaign ==
  \/ \E emails \in RecipientLists, o \in StartOffsetsMs,
        between \in DelayBetweenInputs, hourly \in HourlyLimitInputs :
       createCampaign(emails, now + o, between, hourly)
  \/ InsertDispatch
  \/ InsertDispatchFault
  \/ EnqueueTask
  \/ EnqueueTaskFault

SpecCampaign == InitCampaign /\ [][NextCampaign]_vars

\* SpecBurst: the system without failures on the finer clock, NumDispatch
\* tasks of one campaign against a global ceiling of
\* SchedulerMaxEmailsPerHour.
InitBurst ==
  /\ ticksPerHour = LimiterTicksPerHour
  /\ now = StartTime
  /\ InitState
  /\ faultsLeft = 0
  /\ crashesLeft = 0
  /\ maxEmailsPerHour = SchedulerMaxEmailsPerHour

SpecBurst == InitBurst /\ [][NextCore]_vars

\* SpecLimiter: NumCallers concurrent callers of checkRateLimit, with and
\* without a senderId, while the clock advances.
InitLimiter ==
  /\ ticksPerHour = LimiterTicksPerHour
  /\ now = StartTime
  /\ InitState
  /\ faultsLeft = 0
  /\ crashesLeft = 0
  /\ maxEmailsPerHour = LimiterMaxEmailsPerHour

NextLimiter ==
  \/ Tick
  \/ \E c \in Callers, s \in Senders \cup {NoSender} : CallRateLimit(c, s)
  \/ \E c \in Callers : checkRateLimitGlobal(c)
  \/ \E c \in Callers : checkRateLimitSender(c)

SpecLimiter == InitLimiter /\ [][NextLimiter]_vars

\* SpecGlobal: NumCallers concurrent callers of checkRateLimit, none of
\* which supplies a senderId, while the clock advances.
NextGlobal ==
  \/ Tick
  \/ \E c \in Callers : CallRateLimit(c, NoSender)
  \/ \E c \in Callers : checkRateLimitGlobal(c)

SpecGlobal == InitLimiter /\ [][NextGlobal]_vars

\* ----------------------------------------------------------------- claims
\* the step ends the execution of d, and is not a crash
Ends(d) == pc[d] # "idle" /\ pc'[d] = "idle" /\ crashesLeft' = crashesLeft

\* C1: a dispatch whose status is SENT has had exactly one sendEmail call
\* over the system's lifetime.
C1_ExactlyOneSend ==
  \A d \in Dispatches : dStatus[d] = "SENT" => sendCalls[d] = 1

\* C2: when the row loaded by processEmailDelivery is SENT, the execution
\* goes straight to the end and the job is completed; neither step touches
\* a dispatch row, a rate counter or the transport, and checkRateLimit was
\* not called.
C2_SentGuard ==
  [][\A d \in Dispatches :
       /\ (pc[d] = "load" /\ dStatus[d] = "SENT" /\ pc'[d] \notin {"load", "throw", "idle"})
            => (pc'[d] = "ack" /\ UNCHANGED <<storeVars, kvVars, sendCalls, granted, jobVars>>)
       /\ (pc[d] = "ack" /\ admit[d] = "none" /\ Ends(d))
            => (jState'[d] = "completed"
                /\ UNCHANGED <<storeVars, kvVars, sendCalls, granted>>)]_vars

\* an execution found its dispatch SENT and is about to be acked
C2_Witness ==
  \E d \in Dispatches : pc[d] = "ack" /\ admit[d] = "none" /\ dStatus[d] = "SENT"

\* C3: in every UTC hour at most maxEmailsPerHour dispatches are SENT with
\* their sentTime in that hour.
SentIn(h) == {d \in Dispatches : dStatus[d] = "SENT" /\ getHourKey(dSent[d]) = h}

C3_SentPerHour ==
  \A h \in Hours : Cardinality(SentIn(h)) <= maxEmailsPerHour

\* C4: for every sender and hour, at most MaxEmailsPerHourPerSender calls of
\* checkRateLimit(sender) keyed to that hour return allowed = true.
C4_SenderCeiling ==
  \A s \in Senders, h \in Hours : granted[<<s, h>>] <= MaxEmailsPerHourPerSender

\* C5: once nothing runs and the queue holds no task that can still run,
\* every dispatch is SENT or FAILED.
AtRest ==
  /\ reqPc \in {"idle", "done"}
  /\ \A d \in Dispatches : pc[d] = "idle" /\ jState[d] \in {"none", "completed", "failed"}

C5_AllTerminalAtRest ==
  AtRest => \A d \in Dispatches : dStatus[d] \in {"NONE", "SENT", "FAILED"}

C7_ChargeUsedOrRolledBack ==
  [][\A d \in Dispatches : Ends(d) => charged[d] = {}]_vars

\* C8: every sendEmail call is made by an execution whose last
\* checkRateLimit call returned allowed = true, with no send since.
C8_SendAfterAdmit ==
  [][\A d \in Dispatches :
       sendCalls'[d] # sendCalls[d] => (pc[d] = "send" /\ admit[d] = "allowed")]_vars

\* an execution has called sendEmail
C8_Witness ==
  \E d \in Dispatches : admit[d] = "used" /\ sendCalls[d] >= 1

\* C9: an execution that was rejected by checkRateLimit neither throws, nor
\* advances the task's attempts, nor marks the dispatch FAILED.
C9_RejectionIsNoAttempt ==
  [][\A d \in Dispatches :
       admit[d] = "rejected" =>
         /\ jAttempts'[d] = jAttempts[d]
         /\ dStatus'[d] # "FAILED"
         /\ pc'[d] \notin {"catch", "throw"}]_vars

\* C10: when an execution that was rejected ends, its task is delayed until
\* resetTime and its dispatch is RATE_LIMITED with scheduledTime = resetTime.
C10_RescheduledToReset ==
  [][\A d \in Dispatches :
       (admit[d] = "rejected" /\ Ends(d)) =>
         /\ jState'[d] = "delayed"
         /\ jReadyAt'[d] = resetTimeOf(rlHour[d])
         /\ dStatus'[d] = "RATE_LIMITED"
         /\ dScheduled'[d] = resetTimeOf(rlHour[d])]_vars

\* C11: a dispatch that has been rescheduled for the rate limit still has its
\* task in the queue, and an enqueue for it changes nothing in the queue.
C11_RescheduledKeepsTask ==
  [][\A d \in Dispatches :
       /\ dStatus'[d] = "RATE_LIMITED" => jState'[d] \in {"active", "delayed", "wait"}
       /\ (dStatus[d] = "RATE_LIMITED" /\ enqCalls'[d] = enqCalls[d] + 1)
            => UNCHANGED jobVars]_vars

\* a rescheduled dispatch was enqueued again while its task was delayed
C11_Witness ==
  \E d \in Dispatches :
    dStatus[d] = "RATE_LIMITED" /\ jState[d] = "delayed" /\ enqCalls[d] = 2

\* C12: from the failing sendEmail call to the end of the execution no step
\* of that execution changes a rate counter or its TTL.
C12_NoRollbackOnSendFailure ==
  [][\A d \in Dispatches :
       /\ (pc[d] = "send" /\ pc'[d] = "catch") => UNCHANGED kvVars
       /\ (admit[d] = "used" /\ pc[d] \in {"catch", "throw"})
            => (pc'[d] # pc[d] => UNCHANGED kvVars)]_vars

\* a send failed, the dispatch is FAILED and the counter holds the increment
C12_Witness ==
  \E d \in Dispatches :
    /\ admit[d] = "used" /\ pc[d] = "throw" /\ dStatus[d] = "FAILED"
    /\ sendCalls[d] >= 1 /\ kv[<<"global", rlHour[d]>>] >= 1

\* C13: while the queue will still retry the task, a failed sendEmail call
\* does not put the dispatch into FAILED.
C13_FailedOnlyWhenExhausted ==
  [][\A d \in Dispatches :
       (pc[d] = "catch" /\ err[d] = "send" /\ jAttempts[d] + 1 < MaxAttempts)
         => dStatus'[d] # "FAILED"]_vars

\* C14: with sendEmail failing every time, a task calls it at most
\* MaxAttempts times; a failed job stays failed and is not executed again,
\* and its dispatch is FAILED with an errorMessage.
C14_Inv ==
  \A d \in Dispatches :
    /\ sendCalls[d] <= MaxAttempts
    /\ jState[d] = "failed"
         => (pc[d] = "idle" /\ dStatus[d] = "FAILED" /\ dError[d]
             /\ jAttempts[d] = MaxAttempts)

C14_ThreeAttempts ==
  []C14_Inv /\ [][\A d \in Dispatches : jState[d] = "failed" => jState'[d] = "failed"]_vars

\* a task was executed MaxAttempts times and is failed for good
C14_Witness ==
  \E d \in Dispatches :
    jState[d] = "failed" /\ sendCalls[d] = MaxAttempts /\ dStatus[d] = "FAILED"

\* C15: an execution that finds no row for its dispatch goes straight to
\* the end and is acked.
C15_MissingRowAcked ==
  [][\A d \in Dispatches :
       (pc[d] = "load" /\ dStatus[d] = "NONE" /\ pc'[d] # "load") => pc'[d] = "ack"]_vars

\* C16: a dispatch leaves RATE_LIMITED only for SENDING, written by the
\* next execution of its task, or for FAILED, written by the catch block of
\* the execution that rescheduled it; SCHEDULED is written by the insert
\* only, and a dispatch is RATE_LIMITED only after SENDING.
C16_RateLimitedToSending ==
  [][\A d \in Dispatches :
       /\ (dStatus[d] = "RATE_LIMITED" /\ dStatus'[d] # "RATE_LIMITED")
            => \/ dStatus'[d] = "SENDING" /\ pc[d] = "mark"
               \/ dStatus'[d] = "FAILED" /\ pc[d] = "catch" /\ admit[d] = "rejected"
       /\ (dStatus'[d] = "SCHEDULED" /\ dStatus[d] # "SCHEDULED") => dStatus[d] = "NONE"
       /\ (dStatus'[d] = "RATE_LIMITED" /\ dStatus[d] # "RATE_LIMITED")
            => dStatus[d] = "SENDING"]_vars

\* a dispatch that was rescheduled to resetTime is SENDING again
C16_Witness ==
  \E d \in Dispatches :
    /\ dStatus[d] = "SENDING" /\ pc[d] = "rl_incrG"
    /\ reqPc = "done" /\ dScheduled[d] > reqNow + reqDelay + NumDispatch * DelayBetweenTicks

\* C16 as stated: no step takes a dispatch from RATE_LIMITED to SENDING.
C16_NeverDirectlyToSending ==
  [][\A d \in Dispatches : dStatus[d] = "RATE_LIMITED" => dStatus'[d] # "SENDING"]_vars

\* C17: an execution exists only for a job in the active list, a job is
\* taken only from outside that list, and the status of a dispatch in
\* SENDING is changed only by the execution that holds its job, after that
\* execution wrote SENDING itself.
C17_Holder ==
  \A d \in Dispatches : pc[d] # "idle" => jState[d] = "active"

C17_OneWriterOutOfSending ==
  /\ []C17_Holder
  /\ [][\A d \in Dispatches :
          /\ (pc[d] = "idle" /\ pc'[d] # "idle")
               => (jState[d] \in {"wait", "delayed"} /\ jState'[d] = "active")
          /\ (dStatus[d] = "SENDING" /\ dStatus'[d] # "SENDING")
               => (jState[d] = "active" /\ pc[d] \in {"markRL", "markSent", "catch"})]_vars

\* the job of a dead execution was recovered and its second execution wrote
\* the status after SENDING
C17_Witness ==
  \E d \in Dispatches : jStalled[d] = 1 /\ pc[d] = "ack" /\ dStatus[d] = "SENT"

\* C18: once nothing runs and the queue holds no task that can still run,
\* no dispatch is SENDING.
C18_NoSendingAtRest ==
  AtRest => \A d \in Dispatches : dStatus[d] # "SENDING"

\* C19: after the signal no task is taken; when the process has exited no
\* job is left in the active list, and no dispatch is left in SENDING: every
\* execution that was in progress has written SENT, FAILED or RATE_LIMITED
\* and its job is completed, failed or delayed.
C19_Drained ==
  workerState = "exited" =>
    \A d \in Dispatches : jState[d] # "active" /\ dStatus[d] # "SENDING"

C19_GracefulDrain ==
  /\ []C19_Drained
  /\ [][\A d \in Dispatches :
          (workerState # "running" /\ pc[d] = "idle") => pc'[d] = "idle"]_vars

\* the signal came while an execution was in progress, and the process has
\* exited with that dispatch sent
C19_Witness ==
  \E d \in Dispatches :
    workerState = "exited" /\ dStatus[d] = "SENT" /\ jState[d] = "completed"
    /\ \E e \in Dispatches : dStatus[e] = "SCHEDULED" /\ jState[e] \in {"wait", "delayed"}

\* the calls keyed to hour h that have incremented the global counter and
\* have neither returned nor rolled it back
InFlight(h) ==
  {q \in Procs : rlHour[q] = h
                 /\ pc[q] \in {"rl_expG", "rl_decrG", "rl_incrS", "rl_expS", "rl_decrS"}}

\* C20: a call whose global count exceeds the ceiling goes straight to the
\* rollback; the rollback step takes exactly one off the global counter of
\* the call's hour, changes no other counter and grants nothing, and, when
\* no other call on that hour is in progress, leaves the counter at the
\* value it had before the call's increment. resetTime, fixed when the call
\* is entered, is the start of the next hour, after the time of entry.
C20_GlobalRejection ==
  [][\A p \in Procs :
       LET g == <<"global", rlHour[p]>> IN
       /\ (pc[p] = "rl_expG" /\ pc'[p] # "rl_expG" /\ rlCount[p] > maxEmailsPerHour)
            => (pc'[p] = "rl_decrG" /\ UNCHANGED <<kv, granted>>)
       /\ (pc[p] = "rl_decrG" /\ pc'[p] # "rl_decrG")
            => /\ kv' = [kv EXCEPT ![g] = @ - 1]
               /\ granted' = granted
               /\ p \in Dispatches => admit'[p] = "rejected"
               /\ (rlSender[p] = NoSender /\ InFlight(rlHour[p]) = {p})
                    => kv'[g] = rlCount[p] - 1
       /\ (pc[p] = "idle" /\ pc'[p] = "rl_incrG")
            => /\ resetTimeOf(rlHour'[p]) > now
               /\ resetTimeOf(rlHour'[p]) = (getHourKey(now) + 1) * ticksPerHour]_vars

\* the calls of sender s keyed to hour h that have incremented the sender
\* counter and have neither returned nor rolled it back
SenderInFlight(s, h) ==
  {q \in Procs : rlHour[q] = h /\ rlSender[q] = s /\ pc[q] \in {"rl_expS", "rl_decrS"}}

\* C21: a call whose sender count exceeds the sender ceiling goes straight to
\* the rollback; the first rollback step takes exactly one off the sender
\* counter of the call's hour and nothing else, the second takes exactly one
\* off the global counter and ends the call without granting anything. When
\* no other call of that sender and hour is in progress, the sender counter
\* is left at the value it had before the call's increment.
C21_SenderRejection ==
  [][\A p \in Procs :
       LET g == <<"global", rlHour[p]>>
           s == <<rlSender[p], rlHour[p]>> IN
       /\ (pc[p] = "rl_expS" /\ pc'[p] # "rl_expS" /\ rlCount[p] > MaxEmailsPerHourPerSender)
            => (pc'[p] = "rl_decrS" /\ UNCHANGED <<kv, granted>>)
       /\ (pc[p] = "rl_decrS" /\ pc'[p] # "rl_decrS")
            => /\ kv' = [kv EXCEPT ![s] = @ - 1]
               /\ pc'[p] = "rl_decrG"
               /\ granted' = granted
               /\ SenderInFlight(rlSender[p], rlHour[p]) = {p} => kv'[s] = rlCount[p] - 1
       /\ (pc[p] = "rl_decrG" /\ rlSender[p] # NoSender /\ pc'[p] # "rl_decrG")
            => /\ kv' = [kv EXCEPT ![g] = @ - 1]
               /\ granted' = granted]_vars

\* a checkRateLimit call is between its first Redis command and its return
MidCall(p) == pc[p] \in {"rl_incrG", "rl_expG", "rl_decrG", "rl_incrS", "rl_expS", "rl_decrS"}

\* C22: whenever no checkRateLimit call is in progress, every counter Redis
\* holds equals the number of calls keyed to its hour that returned
\* allowed = true for its scope.
C22_CounterIsGranted ==
  (\A p \in Procs : ~MidCall(p)) =>
    \A k \in Keys : kvTtl[k] # NoKey => kv[k] = granted[k]

\* the key on which a call at its EXPIRE step is about to run redis.expire
ExpireKeyOf(p) ==
  IF pc[p] = "rl_expG" THEN <<"global", rlHour[p]>> ELSE <<rlSender[p], rlHour[p]>>

AtExpire(p) == pc[p] \in {"rl_expG", "rl_expS"}

\* C23: every EXPIRE of a call sets the TTL of its key, when Redis holds the
\* key, to 3600 s from the time of that EXPIRE, whatever TTL the key had; an
\* INCR or DECR leaves the TTL of a key alone and creates a missing key
\* without one; a key is removed only when its TTL has run out, and no
\* earlier.
C23_TtlFromLastCall ==
  [][/\ \A p \in Procs :
          (AtExpire(p) /\ pc'[p] # pc[p]) =>
            LET k == ExpireKeyOf(p) IN
            kvTtl'[k] = IF kvTtl[k] = NoKey THEN NoKey ELSE now + TtlTicks
     /\ \A k \in Keys :
          kvTtl'[k] # kvTtl[k] =>
            \/ kvTtl[k] > 0 /\ kvTtl[k] <= now' /\ now' # now /\ kvTtl'[k] = NoKey
            \/ kvTtl[k] = NoKey /\ kvTtl'[k] = 0
            \/ /\ kvTtl[k] # NoKey /\ kvTtl'[k] = now + TtlTicks
               /\ \E p \in Procs : AtExpire(p) /\ ExpireKeyOf(p) = k /\ pc'[p] # pc[p]
     /\ \A k \in Keys :
          (kvTtl[k] > 0 /\ now' < kvTtl[k]) => kvTtl'[k] # NoKey]_vars

\* a call has incremented a key whose TTL an earlier call set at an earlier
\* tick, and is about to run its EXPIRE
C23_Witness ==
  \E p \in Procs :
    /\ AtExpire(p)
    /\ kv[ExpireKeyOf(p)] >= 2
    /\ kvTtl[ExpireKeyOf(p)] > 0
    /\ kvTtl[ExpireKeyOf(p)] < now + TtlTicks

\* C23 as stated: once a key has a TTL, no step changes it until the key
\* expires.
C23_TtlFromFirstWrite ==
  [][\A k \in Keys : kvTtl[k] > 0 => kvTtl'[k] \in {kvTtl[k], NoKey}]_vars

\* the campaign's tasks have all run to the end and nothing is left to do
Quiescent ==
  /\ reqPc = "done"
  /\ \A d \in Dispatches : pc[d] = "idle" /\ jState[d] \in {"none", "completed"}

\* the hour in which the tasks of the campaign become ready
BurstHour == getHourKey(reqNow + reqDelay)

\* C24: with a ceiling of maxEmailsPerHour and NumDispatch tasks of one
\* campaign ready at one instant of hour H: a task admitted for an hour is
\* SENT in that hour; once all have run, every dispatch is SENT, exactly
\* maxEmailsPerHour of them in H and the others in H + 1, and the global
\* counters Redis still holds are maxEmailsPerHour for H and the number of
\* the others for H + 1.
C24_Inv ==
  (Quiescent /\ DelayBetweenTicks = 0) =>
    /\ \A d \in 1..NumDispatch : dStatus[d] = "SENT"
    /\ Cardinality(SentIn(BurstHour)) = maxEmailsPerHour
    /\ Cardinality(SentIn(BurstHour + 1)) = NumDispatch - maxEmailsPerHour
    /\ kvTtl[<<"global", BurstHour>>] # NoKey
         => kv[<<"global", BurstHour>>] = maxEmailsPerHour
    /\ kvTtl[<<"global", BurstHour + 1>>] # NoKey
         => kv[<<"global", BurstHour + 1>>] = NumDispatch - maxEmailsPerHour

C24_BurstOverCeiling ==
  /\ []C24_Inv
  /\ [][\A d \in Dispatches :
          (pc[d] = "markSent" /\ dStatus'[d] = "SENT")
            => getHourKey(dSent'[d]) = rlHour[d]]_vars

\* delay_i of the recipient at position i (counted from 1), from the
\* request: max(0, startTime - now) + (i - 1) * delayBetweenMs
C25_Delay(i) ==
  Max(0, req.startTime - reqNow) + (i - 1) * (campaign.delayBetweenMs \div TickMs)

\* the insert step creates the row of recipient i, the enqueue step its task
C25_Inserts(i) == reqPc = "insert" /\ reqIdx = i /\ dStatus[i] = "NONE" /\ dStatus'[i] = "SCHEDULED"

C25_Enqueues(i) == reqPc = "enqueue" /\ reqIdx = i /\ enqCalls'[i] = enqCalls[i] + 1

\* C25: for every recipient i the task is enqueued with exactly delay_i and
\* is ready at now + delay_i; the row's scheduledTime is now + delay_i
\* rounded to the whole second, which is what the DATETIME column keeps.
C25_DelayPerRecipient ==
  [][\A i \in Dispatches :
       /\ C25_Inserts(i) =>
            /\ (dScheduled'[i] * TickMs) % 1000 = 0
            /\ 2 * (dScheduled'[i] - (reqNow + C25_Delay(i))) * TickMs <= 1000
            /\ 2 * ((reqNow + C25_Delay(i)) - dScheduled'[i]) * TickMs < 1000
       /\ C25_Enqueues(i) =>
            /\ jReadyAt'[i] = now + C25_Delay(i)
            /\ jState'[i] = IF C25_Delay(i) > 0 THEN "delayed" ELSE "wait"]_vars

\* the second recipient of a campaign that starts later, with a spacing, has
\* its row and its task, and the row's scheduledTime is not the task's time
C25_Witness ==
  \E i \in Dispatches :
    /\ i >= 2 /\ reqDelay > 0 /\ req.delayBetween > 0
    /\ dStatus[i] = "SCHEDULED" /\ jState[i] = "delayed"
    /\ jReadyAt[i] = reqNow + C25_Delay(i)
    /\ dScheduled[i] # jReadyAt[i]

\* C25 as stated: the row's scheduledTime is exactly now + delay_i.
C25_ScheduledTimeExact ==
  [][\A i \in Dispatches :
       C25_Inserts(i) => dScheduled'[i] = reqNow + C25_Delay(i)]_vars

\* C26: once the campaign row is written, the spacing is the request's
\* delayBetweenMs whenever the request carries one, 0 included, and the
\* configured minimum only when it carries none; with a spacing of 0 all
\* rows have one scheduledTime; hourlyLimit likewise defaults only when the
\* request carries none.
C26_DefaultsOnlyWhenAbsent ==
  campaign.status # "NONE" =>
    /\ campaign.delayBetweenMs = IF req.delayBetweenMs = NoValue
                                 THEN MinDelayBetweenEmailsMs ELSE req.delayBetweenMs
    /\ req.delayBetween = campaign.delayBetweenMs \div TickMs
    /\ campaign.hourlyLimit = IF req.hourlyLimit = NoValue
                              THEN MaxEmailsPerHourPerSender ELSE req.hourlyLimit
    /\ req.delayBetweenMs = 0 =>
         \A i, j \in Dispatches :
           (dStatus[i] # "NONE" /\ dStatus[j] # "NONE") => dScheduled[i] = dScheduled[j]

\* the start time of the request is more than the tolerance before the
\* instant at which the request reads the clock
C27_TooLate(startTime, t) == startTime * TickMs < t * TickMs - PastToleranceMs

C27_Rejected == response.code = 400 /\ response.error = "Start time cannot be in the past"

\* C27: a request is answered 400 'Start time cannot be in the past' exactly
\* when its startTime is more than 60 s before now; a rejected request leaves
\* no campaign row, no dispatch row and no task; any other request gets its
\* campaign row and baseDelay = max(0, startTime - now), which is 0 for a
\* start time within the tolerance.
C27_PastStartRejected ==
  /\ [](C27_Rejected =>
          /\ C27_TooLate(req.startTime, reqNow)
          /\ reqPc = "done"
          /\ campaign.status = "NONE"
          /\ \A d \in Dispatches : dStatus[d] = "NONE" /\ jState[d] = "none" /\ enqCalls[d] = 0)
  /\ [][(reqPc = "idle" /\ reqPc' # "idle") =>
          IF C27_TooLate(req'.startTime, now)
          THEN C27_Rejected' /\ UNCHANGED <<campaign, storeVars, jobVars, enqCalls>>
          ELSE /\ ~C27_Rejected'
               /\ reqPc' = "insert"
               /\ campaign'.status = "SCHEDULED"
               /\ reqDelay' = IF req'.startTime <= now THEN 0 ELSE req'.startTime - now]_vars

\* a request whose start time is one millisecond beyond the tolerance has
\* been rejected
C27_Witness ==
  C27_Rejected /\ reqPc = "done" /\ (reqNow - req.startTime) * TickMs = PastToleranceMs + 1

\* the position at which e occurs first in list
C28_First(list, e) == CHOOSE k \in 1..Len(list) : list[k] = e /\ \A m \in 1..(k - 1) : list[m] # e

\* the request has been answered and every insert and enqueue succeeded
C28_AllSucceeded ==
  /\ reqPc = "done"
  /\ Len(req.dispatchResults) = Len(req.emailsToProcess)
  /\ \A i \in 1..Len(req.dispatchResults) : req.dispatchResults[i]

C29_TaskHasRow ==
  /\ [](\A d \in Dispatches : jState[d] # "none" => dStatus[d] # "NONE")
  /\ [][\A d \in Dispatches : enqCalls'[d] # enqCalls[d] => dStatus[d] # "NONE"]_vars

\* the request is at its second recipient, whose row is not written yet,
\* while the task of the first is in the queue with its row
C29_Witness ==
  /\ reqPc = "insert" /\ reqIdx = 2 /\ dStatus[2] = "NONE" /\ jState[2] = "none"
  /\ jState[1] # "none" /\ dStatus[1] # "NONE"

\* the campaign already has a row for the mailbox of recipient i, written
\* the same way or in another letter case
C30_Clash(i) ==
  \E j \in 1..Len(req.emailsToProcess) :
    j # i /\ dStatus[j] # "NONE" /\ req.emailsToProcess[j][1] = req.emailsToProcess[i][1]

\* C30: the insert step for a recipient whose row the unique key refuses
\* writes no row, adds no task, records the recipient as failed and moves to
\* the next recipient, or to the response after the last; such a recipient
\* never has a task, and the response counts it as failed.
C30_DuplicateSkipped ==
  /\ [][\A i \in Dispatches :
          (reqPc = "insert" /\ reqIdx = i /\ C30_Clash(i) /\ <<reqPc, reqIdx>>' # <<reqPc, reqIdx>>)
            => /\ UNCHANGED <<storeVars, jobVars, enqCalls>>
               /\ req'.dispatchResults = Append(req.dispatchResults, FALSE)
               /\ reqIdx' = i + 1
               /\ reqPc' = IF i < Len(req.emailsToProcess) THEN "insert" ELSE "done"]_vars
  /\ [](\A i \in 1..Len(req.dispatchResults) :
          dStatus[i] = "NONE" =>
            /\ ~req.dispatchResults[i]
            /\ jState[i] = "none" /\ enqCalls[i] = 0
            /\ response.code = 201 => response.failed >= 1)

\* the second of three recipients was refused as a duplicate of the first,
\* and the third has its row and its task
C30_Witness ==
  /\ reqPc = "done" /\ response.code = 201 /\ response.failed = 1
  /\ req.dispatchResults = <<TRUE, FALSE, TRUE>>
  /\ dStatus[2] = "NONE" /\ jState[2] = "none"
  /\ dStatus[3] = "SCHEDULED" /\ jState[3] # "none"

\* the recipients of the request recorded with success: true
C31_Created == {i \in 1..Len(req.dispatchResults) : req.dispatchResults[i]}

\* C31: a campaign is IN_PROGRESS only when a recipient was recorded as
\* created, its row inserted and its task enqueued; the campaign goes to
\* IN_PROGRESS only with the 201 response that ends the request; a request
\* that created no dispatch is answered 400 and its campaign stays SCHEDULED.
C31_InProgressNeedsDispatch ==
  /\ [](campaign.status = "IN_PROGRESS" =>
          \E i \in C31_Created : dStatus[i] # "NONE" /\ enqCalls[i] >= 1)
  /\ []((reqPc = "done" /\ campaign.status # "NONE" /\ C31_Created = {}) =>
          /\ response.code = 400
          /\ response.error = "Failed to create any email dispatches"
          /\ campaign.status = "SCHEDULED")
  /\ [][(campaign'.status = "IN_PROGRESS" /\ campaign.status # "IN_PROGRESS") =>
          (reqPc' = "done" /\ response'.code = 201 /\ response'.dispatchCount >= 1)]_vars

\* both recipients of a request failed, one at its enqueue and one at its
\* insert: the request is answered 400 and the campaign is still SCHEDULED
C31_Witness ==
  /\ reqPc = "done" /\ Len(req.emailsToProcess) = 2 /\ Len(req.dispatchResults) = 2
  /\ C31_Created = {}
  /\ response.code = 400 /\ campaign.status = "SCHEDULED"

\* the recipients of the request recorded with success: false
C32_Failed == {i \in 1..Len(req.dispatchResults) : ~req.dispatchResults[i]}

\* the request has been answered after a write failed for a recipient
C32_AnsweredWithFailure ==
  reqPc = "done" /\ campaign.status # "NONE" /\ C32_Failed # {}

C33_SentIsFinal ==
  [][\A d \in Dispatches :
       dStatus[d] = "SENT" =>
         /\ dStatus'[d] = "SENT"
         /\ pc[d] = "load" => pc'[d] \in {"load", "ack", "throw", "idle"}]_vars

\* the process died after the SENT write and before the job was completed;
\* the job was recovered and its next execution is loading the row
C33_Witness ==
  \E d \in Dispatches :
    dStatus[d] = "SENT" /\ jStalled[d] >= 1 /\ pc[d] = "load" /\ sendCalls[d] >= 1

\* C34: for every hour, at most maxEmailsPerHour calls of checkRateLimit
\* keyed to that hour return allowed = true.
C34_GlobalCeiling ==
  \A h \in Hours : granted[<<"global", h>>] <= maxEmailsPerHour

\* C35: every rate counter, global and per sender, is at least 0 in every
\* reachable state.
C35_CountersNonNegative ==
  \A k \in Keys : kv[k] >= 0

\* the steps of checkRateLimit and the send are open to execution e
C36_CanGoOn(e) ==
  /\ pc[e] = "rl_incrG" => ENABLED RlIncrGlobal(e)
  /\ pc[e] = "rl_expG" => ENABLED RlExpireGlobal(e)
  /\ pc[e] = "rl_decrG" => ENABLED RlDecrGlobal(e)
  /\ pc[e] = "send" => ENABLED SendEmail(e)

\* C36: an execution enters the sleep only on the return of checkRateLimit
\* with allowed = true, and leaves it only for sendEmail; sendEmail is
\* entered only from the sleep; an execution that was rejected is never in
\* the sleep or at the send; while an execution sleeps, every other
\* execution can take its next checkRateLimit step and its send.
C36_SleepAfterAdmission ==
  /\ [](\A d \in Dispatches :
          /\ admit[d] = "rejected" => pc[d] \notin {"sleep", "send"}
          /\ pc[d] = "sleep" => (admit[d] = "allowed" /\ \A e \in Dispatches \ {d} : C36_CanGoOn(e)))
  /\ [][\A d \in Dispatches :
          /\ (pc'[d] = "sleep" /\ pc[d] # "sleep")
               => (pc[d] \in {"rl_expG", "rl_expS"} /\ admit'[d] = "allowed"
                   /\ rlCount[d] <= maxEmailsPerHour /\ UNCHANGED sendCalls)
          /\ (pc[d] = "sleep" /\ pc'[d] # "sleep")
               => (pc'[d] \in {"send", "idle"} /\ UNCHANGED sendCalls)
          /\ (pc'[d] = "send" /\ pc[d] # "send") => pc[d] = "sleep"
          /\ sendCalls'[d] # sendCalls[d] => pc[d] = "send"]_vars

\* one execution is in its sleep while another, admitted as well, is at its
\* sendEmail call
C36_Witness ==
  \E d, e \in Dispatches :
    /\ d # e /\ pc[d] = "sleep" /\ pc[e] = "send"
    /\ admit[d] = "allowed" /\ admit[e] = "allowed"

\* the step hands the failed execution of d to the retry policy, which
\* delays the job for another attempt
C37_Retried(d) == pc[d] = "throw" /\ pc'[d] = "idle" /\ jState'[d] = "delayed"

\* C37: the job of a failed attempt is delayed by BackoffDelayMs (5 s) after
\* the first attempt and by 5 * BackoffDelayMs (25 s) after the second.
C37_BackoffFiveThenTwentyFive ==
  [][\A d \in Dispatches :
       C37_Retried(d) =>
         (jReadyAt'[d] - now) * TickMs =
           IF jAttempts'[d] = 1 THEN BackoffDelayMs ELSE 5 * BackoffDelayMs]_vars

\* the sum of the values of f over the set S
RECURSIVE C38_Sum(_, _)
C38_Sum(f, S) ==
  IF S = {} THEN 0
  ELSE LET x == CHOOSE y \in S : TRUE IN f[x] + C38_Sum(f, S \ {x})

\* the calls of checkRateLimit that returned allowed = true, over all hours
C38_Admissions == C38_Sum([h \in Hours |-> granted[<<"global", h>>]], Hours)

\* C38: every execution that goes past the SENT guard enters checkRateLimit,
\* with no admission left from an earlier attempt; an execution becomes
\* admitted only by a call of its own that returned allowed = true, after
\* its own increment of the global counter, and every such return admits
\* one execution; every sendEmail call uses up the admission of its
\* execution, and an admission is given up only by a sendEmail call. So the
\* admissions granted are the sendEmail calls made plus the executions
\* admitted and not yet at their send: one per attempt, not one per dispatch.
C38_AdmissionPerAttempt ==
  /\ [](/\ C38_Admissions = C38_Sum(sendCalls, Dispatches)
                             + Cardinality({d \in Dispatches : admit[d] = "allowed"})
        /\ \A d \in Dispatches : pc[d] \in {"idle", "load", "mark"} => admit[d] = "none")
  /\ [][\A d \in Dispatches :
          /\ (pc[d] = "mark" /\ pc'[d] # "mark") => pc'[d] \in {"rl_incrG", "throw"}
          /\ (admit'[d] = "allowed" /\ admit[d] # "allowed")
               => /\ pc[d] = "rl_expG" /\ "global" \in charged[d]
                  /\ C38_Admissions' = C38_Admissions + 1
          /\ sendCalls'[d] # sendCalls[d]
               => (sendCalls'[d] = sendCalls[d] + 1 /\ admit[d] = "allowed" /\ admit'[d] = "used")
          /\ (admit[d] = "allowed" /\ admit'[d] # "allowed")
               => sendCalls'[d] = sendCalls[d] + 1]_vars
  /\ [][C38_Admissions' # C38_Admissions =>
          \E d \in Dispatches : admit'[d] = "allowed" /\ admit[d] # "allowed"]_vars

\* a dispatch is SENT by the second attempt of its task: two sendEmail
\* calls, and two admissions for it
C38_Witness ==
  \E d \in Dispatches :
    /\ dStatus[d] = "SENT" /\ jState[d] = "completed"
    /\ jAttempts[d] = 1 /\ sendCalls[d] = 2
    /\ C38_Admissions = C38_Sum(sendCalls, Dispatches)
    /\ \A e \in Dispatches \ {d} : sendCalls[e] = 0

\* C39: once createCampaign has returned, every dispatch row it inserted
\* has its task in the queue.
C39_EveryRowHasTask ==
  reqPc = "done" =>
    \A d \in Dispatches : dStatus[d] # "NONE" => (jState[d] # "none" /\ enqCalls[d] >= 1)

\* the calls keyed to hour h that were granted, and those that have made
\* their increment within the ceiling and will be granted on return
C40_Taken(h) ==
  granted[<<"global", h>>]
  + Cardinality({q \in Procs : rlHour[q] = h /\ pc[q] = "rl_expG"
                                /\ rlCount[q] <= maxEmailsPerHour})

\* the step with which the call of p returns allowed = false
C40_Rejects(p) == pc[p] = "rl_decrG" /\ pc'[p] # "rl_decrG"

\* C40: with no senderId supplied, a call returns allowed = false only when
\* the calls keyed to its hour that were granted, together with those
\* about to be granted, are at least the global ceiling.
C40_NoSpuriousRejection ==
  [][\A p \in Procs : C40_Rejects(p) => C40_Taken(rlHour[p]) >= maxEmailsPerHour]_vars

\* a call is about to return allowed = false with the ceiling reached by
\* one call that was granted and one that is still on its way
C40_Witness ==
  \E p \in Procs :
    /\ pc[p] = "rl_decrG"
    /\ granted[<<"global", rlHour[p]>>] < maxEmailsPerHour
    /\ C40_Taken(rlHour[p]) = maxEmailsPerHour

\* C40 as stated: a call returns allowed = false only when the calls already
\* granted for its hour equal the global ceiling.
C40_RejectedOnlyAtCeiling ==
  [][\A p \in Procs :
       C40_Rejects(p) => granted[<<"global", rlHour[p]>>] = maxEmailsPerHour]_vars

TypeOK ==
  /\ now \in StartTime..MaxNow
  /\ dStatus \in [Dispatches -> {"NONE", "SCHEDULED", "SENDING", "SENT", "FAILED", "RATE_LIMITED"}]
  /\ jState \in [Dispatches -> {"none", "wait", "delayed", "active", "completed", "failed"}]
  /\ \A d \in Dispatches : jAttempts[d] \in 0..MaxAttempts

====
